---- MODULE Spec2Model ----
(***************************************************************************)
(* Model of the cloud-canvas serverless back end: the photo, like and      *)
(* comment HTTP handlers over the document store (Photos, Likes,           *)
(* Comments), the blob container and the Redis cache.                      *)
(*                                                                         *)
(* Every handler is a pure operator from the store state and the request   *)
(* to the new store state and the response.  Each external call of a       *)
(* handler (store, blob, cache, body parsing) is numbered in program       *)
(* order; the input f names the call that throws (0: none), which sends    *)
(* the handler to its catch block.                                         *)
(***************************************************************************)
EXTENDS Integers, Sequences, FiniteSets, TLC

\* ---------------------------------------------------------------- bounds
MaxPhotos == 2
MaxLikes == 2
MaxComments == 1
MaxRequests == 3
MaxFaults == 1

\* ---------------------------------------------------------------- values
Null == "null"
Undefined == "undefined"
Absent == "absent"

Users == {"u1", "u2"}
Callers == Users \cup {Null}
Roles == {"creator", "consumer", "admin"}

NoParam == 0
UnknownId == MaxPhotos + 1
LikeId(n) == UnknownId + n
CommentId(n) == UnknownId + MaxLikes + n

Pages == {1, 2}
Limits == {1, 2}

Space == " "
\* comment texts, as sequences of characters
Texts == {<<>>, <<Space, Space>>, <<"a">>, <<Space, "a", Space>>}
\* a parsed JSON body: <<>> is {} (no content property), <<t>> is {"content": t}
Bodies == {<<>>} \cup {<<t>> : t \in Texts}

LIST_TTL == 60
ENTITY_TTL == 300

\* ---------------------------------------------------------------- helpers
Put(fn, k, v) == [x \in DOMAIN fn \cup {k} |-> IF x = k THEN v ELSE fn[x]]
Drop(fn, K) == [x \in DOMAIN fn \ K |-> fn[x]]
Max(S) == CHOOSE x \in S : \A y \in S : y <= x

RECURSIVE SeqDesc(_)
SeqDesc(S) == IF S = {} THEN <<>> ELSE <<Max(S)>> \o SeqDesc(S \ {Max(S)})

OffsetLimit(s, offset, limit) ==
    IF offset >= Len(s) THEN <<>>
    ELSE SubSeq(s, offset + 1, IF offset + limit <= Len(s) THEN offset + limit ELSE Len(s))

RECURSIVE TrimStart(_)
TrimStart(s) == IF s # <<>> /\ Head(s) = Space THEN TrimStart(Tail(s)) ELSE s
RECURSIVE TrimEnd(_)
TrimEnd(s) == IF s # <<>> /\ s[Len(s)] = Space THEN TrimEnd(SubSeq(s, 1, Len(s) - 1)) ELSE s
Trim(s) == TrimEnd(TrimStart(s))

\* JSON.stringify followed by JSON.parse on a photo object: a property whose
\* value is undefined is dropped.
JsonPhoto(p) == [p EXCEPT !.location = IF @ = Undefined THEN Absent ELSE @]
JsonPhotos(s) == [i \in 1..Len(s) |-> JsonPhoto(s[i])]

\* ---------------------------------------------------------------- cache
\* mutant: the key generator drops the id
CACHE_KEYS_photo_noId(id) == <<"photo", NoParam>>
CACHE_KEYS_photo(id) == <<"photo", id>>
CACHE_KEYS_photos(page) == <<"photos", "page", page>>
CACHE_KEYS_photoLikes(id) == <<"photo", id, "likes">>
CACHE_KEYS_photoComments(id) == <<"photo", id, "comments">>

\* the keys a glob pattern 'photos:*' selects
MatchesPhotosStar(key) == key[1] = "photos" /\ Len(key) >= 2

\* data ? JSON.parse(data) : null
cacheGet(c, key) ==
    IF key \in DOMAIN c THEN [found |-> TRUE, val |-> c[key].val] ELSE [found |-> FALSE, val |-> Null]
cacheSet(c, key, value, ttlSeconds) == Put(c, key, [val |-> value, ttl |-> ttlSeconds])
\* mutant: the deletion is skipped
cacheDelete_noop(c, key) == c
cacheDelete(c, key) == Drop(c, {key})
\* mutant: the pattern never matches a key
cacheInvalidatePattern_noop(c) == c
cacheInvalidatePattern(c) == Drop(c, {k \in DOMAIN c : MatchesPhotosStar(k)})

\* ---------------------------------------------------------------- state
\* the back end: stores, cache, uuid counters, latest response, budgets
VARIABLES photos, likes, comments, blobs, cache, photoSeq, likeSeq, commentSeq,
          resp, deleted, requests, faults
\* a likePhoto invocation in progress, per function instance
VARIABLES procs
\* the browser: AuthProvider's user, the static dataset, PhotoProvider's photos,
\* the like / unlike / addComment calls made, Date.now(), the ids the server
\* gave to saved comments, the build's configuration, and the open PhotoDetail
VARIABLES user, mockPhotos, uiPhotos, intents, now, savedSeq, azureConfigured, detail
\* AuthProvider's isAuthenticated / isLoading, and its login calls waiting for
\* their timer
VARIABLES authState, logins

\* one function process: its module-level client singletons, and the calls of
\* their getters in progress
VARIABLES modules, calls

serverVars == <<photos, likes, comments, blobs, cache, photoSeq, likeSeq, commentSeq,
                resp, deleted, requests, faults>>
clientVars == <<user, mockPhotos, uiPhotos, intents, now, savedSeq, azureConfigured, detail,
               authState, logins>>
moduleVars == <<modules, calls>>
vars == <<serverVars, procs, moduleVars, clientVars>>

State == [photos |-> photos, likes |-> likes, comments |-> comments, blobs |-> blobs,
          cache |-> cache, photoSeq |-> photoSeq, likeSeq |-> likeSeq,
          commentSeq |-> commentSeq]

Response(op, status, threw, id, caller, role, arg, source, body) ==
    [op |-> op, status |-> status, threw |-> threw, id |-> id, user |-> caller,
     role |-> role, arg |-> arg, source |-> source, body |-> body]

\* what the caller sees of the latest response
Summary(r) == [op |-> r.op, status |-> r.status]

\* no response outstanding
NoResponse == [op |-> "none", status |-> 0]

Result(st, r) == [st |-> st, resp |-> r]

\* ---------------------------------------------------------------- photos
\* SELECT * FROM c ORDER BY c.createdAt DESC OFFSET @offset LIMIT @limit
QueryPhotos(st, offset, limit) ==
    LET ids == OffsetLimit(SeqDesc(DOMAIN st.photos), offset, limit)
    IN  [i \in 1..Len(ids) |-> st.photos[ids[i]]]

\* calls: 1 cacheGet, 2 items.query, 3 cacheSet
getPhotos(st, page, limit, f) ==
    LET R(status, threw, source, body, s) ==
            Result(s, Response("getPhotos", status, threw, page, Null, Null, limit, source, body))
        offset == (page - 1) * limit
        cacheKey == CACHE_KEYS_photos(page)
        cached == cacheGet(st.cache, cacheKey)
        rows == QueryPhotos(st, offset, limit)
    IN  IF f = 1 THEN R(500, "cache", Null, Null, st)
        ELSE IF cached.found THEN R(200, "none", "cache", cached.val, st)
        ELSE IF f = 2 THEN R(500, "store", Null, Null, st)
        ELSE IF f = 3 THEN R(500, "cache", Null, Null, st)
        ELSE R(200, "none", "store", rows,
               [st EXCEPT !.cache = cacheSet(@, cacheKey, JsonPhotos(rows), LIST_TTL)])

\* mutant: the absence of the photo is cached too
getPhoto_negativeCache(st, id, f) ==
    LET R(status, threw, source, body, s) ==
            Result(s, Response("getPhoto", status, threw, id, Null, Null, Null, source, body))
        cacheKey == CACHE_KEYS_photo(id)
        cached == cacheGet(st.cache, cacheKey)
    IN  IF id = NoParam THEN R(400, "none", Null, Null, st)
        ELSE IF f = 1 THEN R(500, "cache", Null, Null, st)
        ELSE IF cached.found THEN R(200, "none", "cache", cached.val, st)
        ELSE IF f = 2 THEN R(500, "store", Null, Null, st)
        ELSE IF id \notin DOMAIN st.photos
            THEN R(404, "none", Null, Null, [st EXCEPT !.cache = cacheSet(@, cacheKey, Null, ENTITY_TTL)])
        ELSE IF f = 3 THEN R(500, "cache", Null, Null, st)
        ELSE R(200, "none", "store", st.photos[id],
               [st EXCEPT !.cache = cacheSet(@, cacheKey, JsonPhoto(st.photos[id]), ENTITY_TTL)])

\* calls: 1 cacheGet, 2 item.read, 3 cacheSet
getPhoto(st, id, f) ==
    LET R(status, threw, source, body, s) ==
            Result(s, Response("getPhoto", status, threw, id, Null, Null, Null, source, body))
        cacheKey == CACHE_KEYS_photo(id)
        cached == cacheGet(st.cache, cacheKey)
    IN  IF id = NoParam THEN R(400, "none", Null, Null, st)
        ELSE IF f = 1 THEN R(500, "cache", Null, Null, st)
        ELSE IF cached.found THEN R(200, "none", "cache", cached.val, st)
        ELSE IF f = 2 THEN R(500, "store", Null, Null, st)
        ELSE IF id \notin DOMAIN st.photos THEN R(404, "none", Null, Null, st)
        ELSE IF f = 3 THEN R(500, "cache", Null, Null, st)
        ELSE R(200, "none", "store", st.photos[id],
               [st EXCEPT !.cache = cacheSet(@, cacheKey, JsonPhoto(st.photos[id]), ENTITY_TTL)])

\* mutant: the admin role passes the role check too
createPhoto_adminMayUpload(st, userId, userRole, file, title, location, f) ==
    LET R(status, threw, id, body, s) ==
            Result(s, Response("createPhoto", status, threw, id, userId, userRole, <<file, title>>, Null, body))
        photoId == st.photoSeq + 1
        photo == [id |-> photoId, creatorId |-> userId, blob |-> photoId,
                  location |-> IF location = Null THEN Undefined ELSE location,
                  likes |-> 0]
        s2 == [st EXCEPT !.blobs = @ \cup {photoId}, !.photoSeq = photoId]
        s3 == [s2 EXCEPT !.photos = Put(@, photoId, JsonPhoto(photo))]
        s4 == [s3 EXCEPT !.cache = cacheInvalidatePattern(@)]
    IN  IF userRole \notin {"creator", "admin"} THEN R(403, "none", NoParam, Null, st)
        ELSE IF f = 1 THEN R(500, "parse", NoParam, Null, st)
        ELSE IF file = Null \/ title = Null THEN R(400, "none", NoParam, Null, st)
        ELSE IF f = 2 THEN R(500, "blob", NoParam, Null, st)
        ELSE IF f = 3 THEN R(500, "store", photoId, Null, s2)
        ELSE IF f = 4 THEN R(500, "cache", photoId, Null, s3)
        ELSE R(201, "none", photoId, JsonPhoto(photo), s4)
\* calls: 1 request.formData, 2 uploadPhoto, 3 items.create, 4 cacheInvalidatePattern
createPhoto(st, userId, userRole, file, title, location, f) ==
    LET R(status, threw, id, body, s) ==
            Result(s, Response("createPhoto", status, threw, id, userId, userRole, <<file, title>>, Null, body))
        photoId == st.photoSeq + 1
        photo == [id |-> photoId, creatorId |-> userId, blob |-> photoId,
                  location |-> IF location = Null THEN Undefined ELSE location,
                  likes |-> 0]
        s2 == [st EXCEPT !.blobs = @ \cup {photoId}, !.photoSeq = photoId]
        s3 == [s2 EXCEPT !.photos = Put(@, photoId, JsonPhoto(photo))]
        s4 == [s3 EXCEPT !.cache = cacheInvalidatePattern(@)]
    IN  IF userRole # "creator" THEN R(403, "none", NoParam, Null, st)
        ELSE IF f = 1 THEN R(500, "parse", NoParam, Null, st)
        ELSE IF file = Null \/ title = Null THEN R(400, "none", NoParam, Null, st)
        ELSE IF f = 2 THEN R(500, "blob", NoParam, Null, st)
        ELSE IF f = 3 THEN R(500, "store", photoId, Null, s2)
        ELSE IF f = 4 THEN R(500, "cache", photoId, Null, s3)
        ELSE R(201, "none", photoId, JsonPhoto(photo), s4)

\* calls: 1 item.read, 2 deletePhoto (blob), 3 item.delete, 4 cacheDelete,
\*        5 cacheInvalidatePattern
deletePhotoHandler(st, id, userId, userRole, f) ==
    LET R(status, threw, s) ==
            Result(s, Response("deletePhotoHandler", status, threw, id, userId, userRole, Null, Null, Null))
        photo == st.photos[id]
        s2 == [st EXCEPT !.blobs = @ \ {photo.blob}]
        s3 == [s2 EXCEPT !.photos = Drop(@, {id})]
        s4 == [s3 EXCEPT !.cache = cacheDelete(@, CACHE_KEYS_photo(id))]
        s5 == [s4 EXCEPT !.cache = cacheInvalidatePattern(@)]
    IN  IF id = NoParam THEN R(400, "none", st)
        ELSE IF f = 1 THEN R(500, "store", st)
        ELSE IF id \notin DOMAIN st.photos THEN R(404, "none", st)
        ELSE IF photo.creatorId # userId /\ userRole # "admin" THEN R(403, "none", st)
        ELSE IF f = 2 THEN R(500, "blob", st)
        ELSE IF f = 3 THEN R(500, "store", s2)
        ELSE IF f = 4 THEN R(500, "cache", s3)
        ELSE IF f = 5 THEN R(500, "cache", s4)
        ELSE R(204, "none", s5)

\* ---------------------------------------------------------------- likes
\* partition key of the Likes collection (lib/cosmos): the document's own id
LikesPartitionKey(like) == like.id
\* partition key of the Comments collection (lib/cosmos): photoId
CommentsPartitionKey(comment) == comment.photoId

\* mutant: the query compares the document id with the photo id
QueryLikes_wrongField(st, photoId, userId) == {l \in st.likes : l.id = photoId /\ l.userId = userId}
\* mutant: the query forgets the user filter
QueryLikes_anyUser(st, photoId, userId) == {l \in st.likes : l.photoId = photoId}
\* SELECT * FROM c WHERE c.photoId = @photoId AND c.userId = @userId
QueryLikes(st, photoId, userId) == {l \in st.likes : l.photoId = photoId /\ l.userId = userId}
\* SELECT VALUE COUNT(1) FROM c WHERE c.photoId = @photoId
CountLikes(st, photoId) == Cardinality({l \in st.likes : l.photoId = photoId})
FirstOf(S) == CHOOSE x \in S : \A y \in S : x.id <= y.id

\* container.item(id, partitionKey): the documents the point operation addresses
LikeItem(st, id, pk) == {l \in st.likes : l.id = id /\ LikesPartitionKey(l) = pk}
CommentItem(st, id, pk) == {c \in st.comments : c.id = id /\ CommentsPartitionKey(c) = pk}

\* calls: 1 cacheGet, 2 count query, 3 cacheSet, 4 user query
getLikes(st, photoId, userId, f) ==
    LET R(status, threw, source, body, s) ==
            Result(s, Response("getLikes", status, threw, photoId, userId, Null, Null, source, body))
        cacheKey == CACHE_KEYS_photoLikes(photoId)
        cached == cacheGet(st.cache, cacheKey)
        miss == ~cached.found
        likeCount == IF miss THEN CountLikes(st, photoId) ELSE cached.val
        s3 == IF miss THEN [st EXCEPT !.cache = cacheSet(@, cacheKey, likeCount, LIST_TTL)] ELSE st
        userHasLiked == userId # Null /\ QueryLikes(st, photoId, userId) # {}
    IN  IF photoId = NoParam THEN R(400, "none", Null, Null, st)
        ELSE IF f = 1 THEN R(500, "cache", Null, Null, st)
        ELSE IF miss /\ f = 2 THEN R(500, "store", Null, Null, st)
        ELSE IF miss /\ f = 3 THEN R(500, "cache", Null, Null, st)
        ELSE IF userId # Null /\ f = 4 THEN R(500, "store", Null, Null, s3)
        ELSE R(200, "none", IF miss THEN "store" ELSE "cache",
               [count |-> likeCount, userHasLiked |-> userHasLiked], s3)

\* mutant: the Like is created and the photo's count is not written
likePhoto_noUpsert(st, photoId, userId, f) ==
    LET R(status, threw, body, s) ==
            Result(s, Response("likePhoto", status, threw, photoId, userId, Null, Null, Null, body))
        photo == st.photos[photoId]
        like == [id |-> LikeId(st.likeSeq + 1), photoId |-> photoId, userId |-> userId]
        liked == [photo EXCEPT !.likes = @ + 1]
        s3 == [st EXCEPT !.likes = @ \cup {like}, !.likeSeq = @ + 1]
        s4 == s3
        s5 == [s4 EXCEPT !.cache = cacheDelete(@, CACHE_KEYS_photoLikes(photoId))]
        s6 == [s5 EXCEPT !.cache = cacheDelete(@, CACHE_KEYS_photo(photoId))]
    IN  IF photoId = NoParam THEN R(400, "none", Null, st)
        ELSE IF userId = Null THEN R(401, "none", Null, st)
        ELSE IF f = 1 THEN R(500, "store", Null, st)
        ELSE IF photoId \notin DOMAIN st.photos THEN R(404, "none", Null, st)
        ELSE IF f = 2 THEN R(500, "store", Null, st)
        ELSE IF QueryLikes(st, photoId, userId) # {} THEN R(409, "none", Null, st)
        ELSE IF f = 3 THEN R(500, "store", Null, st)
        ELSE IF f = 4 THEN R(500, "store", Null, s3)
        ELSE IF f = 5 THEN R(500, "cache", Null, s4)
        ELSE IF f = 6 THEN R(500, "cache", Null, s5)
        ELSE R(201, "none", liked.likes, s6)

\* mutant: the updated photo is written through to the cache
likePhoto_writeThrough(st, photoId, userId, f) ==
    LET R(status, threw, body, s) ==
            Result(s, Response("likePhoto", status, threw, photoId, userId, Null, Null, Null, body))
        photo == st.photos[photoId]
        like == [id |-> LikeId(st.likeSeq + 1), photoId |-> photoId, userId |-> userId]
        liked == [photo EXCEPT !.likes = @ + 1]
        s3 == [st EXCEPT !.likes = @ \cup {like}, !.likeSeq = @ + 1]
        s4 == [s3 EXCEPT !.photos = Put(@, photoId, liked)]
        s5 == [s4 EXCEPT !.cache = cacheDelete(@, CACHE_KEYS_photoLikes(photoId))]
        s6 == [s5 EXCEPT !.cache = cacheSet(@, CACHE_KEYS_photo(photoId), JsonPhoto(liked), ENTITY_TTL)]
    IN  IF photoId = NoParam THEN R(400, "none", Null, st)
        ELSE IF userId = Null THEN R(401, "none", Null, st)
        ELSE IF f = 1 THEN R(500, "store", Null, st)
        ELSE IF photoId \notin DOMAIN st.photos THEN R(404, "none", Null, st)
        ELSE IF f = 2 THEN R(500, "store", Null, st)
        ELSE IF QueryLikes(st, photoId, userId) # {} THEN R(409, "none", Null, st)
        ELSE IF f = 3 THEN R(500, "store", Null, st)
        ELSE IF f = 4 THEN R(500, "store", Null, s3)
        ELSE IF f = 5 THEN R(500, "cache", Null, s4)
        ELSE IF f = 6 THEN R(500, "cache", Null, s5)
        ELSE R(201, "none", liked.likes, s6)

\* mutant: a failed upsert is compensated by taking the created Like back
likePhoto_rollsBackLike(st, photoId, userId, f) ==
    LET R(status, threw, body, s) ==
            Result(s, Response("likePhoto", status, threw, photoId, userId, Null, Null, Null, body))
        photo == st.photos[photoId]
        like == [id |-> LikeId(st.likeSeq + 1), photoId |-> photoId, userId |-> userId]
        liked == [photo EXCEPT !.likes = @ + 1]
        s3 == [st EXCEPT !.likes = @ \cup {like}, !.likeSeq = @ + 1]
        s4 == [s3 EXCEPT !.photos = Put(@, photoId, liked)]
        s5 == [s4 EXCEPT !.cache = cacheDelete(@, CACHE_KEYS_photoLikes(photoId))]
        s6 == [s5 EXCEPT !.cache = cacheDelete(@, CACHE_KEYS_photo(photoId))]
    IN  IF photoId = NoParam THEN R(400, "none", Null, st)
        ELSE IF userId = Null THEN R(401, "none", Null, st)
        ELSE IF f = 1 THEN R(500, "store", Null, st)
        ELSE IF photoId \notin DOMAIN st.photos THEN R(404, "none", Null, st)
        ELSE IF f = 2 THEN R(500, "store", Null, st)
        ELSE IF QueryLikes(st, photoId, userId) # {} THEN R(409, "none", Null, st)
        ELSE IF f = 3 THEN R(500, "store", Null, st)
        ELSE IF f = 4 THEN R(500, "store", Null, [st EXCEPT !.likeSeq = @ + 1])
        ELSE IF f = 5 THEN R(500, "cache", Null, s4)
        ELSE IF f = 6 THEN R(500, "cache", Null, s5)
        ELSE R(201, "none", liked.likes, s6)
\* calls: 1 item.read, 2 likes query, 3 items.create, 4 items.upsert,
\*        5 cacheDelete(photoLikes), 6 cacheDelete(photo)
likePhoto(st, photoId, userId, f) ==
    LET R(status, threw, body, s) ==
            Result(s, Response("likePhoto", status, threw, photoId, userId, Null, Null, Null, body))
        photo == st.photos[photoId]
        like == [id |-> LikeId(st.likeSeq + 1), photoId |-> photoId, userId |-> userId]
        liked == [photo EXCEPT !.likes = @ + 1]
        s3 == [st EXCEPT !.likes = @ \cup {like}, !.likeSeq = @ + 1]
        s4 == [s3 EXCEPT !.photos = Put(@, photoId, liked)]
        s5 == [s4 EXCEPT !.cache = cacheDelete(@, CACHE_KEYS_photoLikes(photoId))]
        s6 == [s5 EXCEPT !.cache = cacheDelete(@, CACHE_KEYS_photo(photoId))]
    IN  IF photoId = NoParam THEN R(400, "none", Null, st)
        ELSE IF userId = Null THEN R(401, "none", Null, st)
        ELSE IF f = 1 THEN R(500, "store", Null, st)
        ELSE IF photoId \notin DOMAIN st.photos THEN R(404, "none", Null, st)
        ELSE IF f = 2 THEN R(500, "store", Null, st)
        ELSE IF QueryLikes(st, photoId, userId) # {} THEN R(409, "none", Null, st)
        ELSE IF f = 3 THEN R(500, "store", Null, st)
        ELSE IF f = 4 THEN R(500, "store", Null, s3)
        ELSE IF f = 5 THEN R(500, "cache", Null, s4)
        ELSE IF f = 6 THEN R(500, "cache", Null, s5)
        ELSE R(201, "none", liked.likes, s6)

\* calls: 1 likes query, 2 item.delete, 3 item.read, 4 items.upsert,
\*        5 cacheDelete(photoLikes), 6 cacheDelete(photo)
unlikePhoto(st, photoId, userId, f) ==
    LET R(status, threw, body, s) ==
            Result(s, Response("unlikePhoto", status, threw, photoId, userId, Null, Null, Null, body))
        existingLikes == QueryLikes(st, photoId, userId)
        like == FirstOf(existingLikes)
        item == LikeItem(st, like.id, like.photoId)
        s2 == [st EXCEPT !.likes = @ \ item]
        found == photoId \in DOMAIN s2.photos
        photo == s2.photos[photoId]
        unliked == [photo EXCEPT !.likes = IF @ - 1 > 0 THEN @ - 1 ELSE 0]
        s4 == IF found THEN [s2 EXCEPT !.photos = Put(@, photoId, unliked)] ELSE s2
        s5 == [s4 EXCEPT !.cache = cacheDelete(@, CACHE_KEYS_photoLikes(photoId))]
        s6 == [s5 EXCEPT !.cache = cacheDelete(@, CACHE_KEYS_photo(photoId))]
    IN  IF photoId = NoParam THEN R(400, "none", Null, st)
        ELSE IF userId = Null THEN R(401, "none", Null, st)
        ELSE IF f = 1 THEN R(500, "store", Null, st)
        ELSE IF existingLikes = {} THEN R(404, "none", Null, st)
        ELSE IF f = 2 \/ item = {} THEN R(500, "store", Null, st)
        ELSE IF f = 3 THEN R(500, "store", Null, s2)
        ELSE IF found /\ f = 4 THEN R(500, "store", Null, s2)
        ELSE IF f = 5 THEN R(500, "cache", Null, s4)
        ELSE IF f = 6 THEN R(500, "cache", Null, s5)
        ELSE R(200, "none", IF found THEN unliked.likes ELSE 0, s6)

\* mutant: the photos query runs after the try block, so its exception
\* leaves the handler (status 0: no response)
getUserLikedPhotos_queryOutsideTry(st, userId, f) ==
    LET R(status, threw, body) ==
            Result(st, Response("getUserLikedPhotos", status, threw, NoParam, userId, Null, Null, Null, body))
        photoIds == {l.photoId : l \in {x \in st.likes : x.userId = userId}}
    IN  IF userId = Null THEN R(400, "none", Null)
        ELSE IF f = 1 THEN R(500, "store", Null)
        ELSE IF photoIds = {} THEN R(200, "none", {})
        ELSE IF f = 2 THEN R(0, "store", Null)
        ELSE R(200, "none", {st.photos[i] : i \in photoIds \cap DOMAIN st.photos})
\* calls: 1 likes query, 2 photos query
getUserLikedPhotos(st, userId, f) ==
    LET R(status, threw, body) ==
            Result(st, Response("getUserLikedPhotos", status, threw, NoParam, userId, Null, Null, Null, body))
        photoIds == {l.photoId : l \in {x \in st.likes : x.userId = userId}}
    IN  IF userId = Null THEN R(400, "none", Null)
        ELSE IF f = 1 THEN R(500, "store", Null)
        ELSE IF photoIds = {} THEN R(200, "none", {})
        ELSE IF f = 2 THEN R(500, "store", Null)
        ELSE R(200, "none", {st.photos[i] : i \in photoIds \cap DOMAIN st.photos})

\* ---------------------------------------------------------------- comments
\* SELECT * FROM c WHERE c.photoId = @photoId ORDER BY c.createdAt DESC
QueryComments(st, photoId) ==
    LET ids == SeqDesc({c.id : c \in {x \in st.comments : x.photoId = photoId}})
    IN  [i \in 1..Len(ids) |-> CHOOSE c \in st.comments : c.id = ids[i]]

\* calls: 1 cacheGet, 2 items.query, 3 cacheSet
getComments(st, photoId, f) ==
    LET R(status, threw, source, body, s) ==
            Result(s, Response("getComments", status, threw, photoId, Null, Null, Null, source, body))
        cacheKey == CACHE_KEYS_photoComments(photoId)
        cached == cacheGet(st.cache, cacheKey)
        rows == QueryComments(st, photoId)
    IN  IF photoId = NoParam THEN R(400, "none", Null, Null, st)
        ELSE IF f = 1 THEN R(500, "cache", Null, Null, st)
        ELSE IF cached.found THEN R(200, "none", "cache", cached.val, st)
        ELSE IF f = 2 THEN R(500, "store", Null, Null, st)
        ELSE IF f = 3 THEN R(500, "cache", Null, Null, st)
        ELSE R(200, "none", "store", rows,
               [st EXCEPT !.cache = cacheSet(@, cacheKey, rows, LIST_TTL)])

\* mutant: the content is not trimmed before the length test
ContentRejected_noTrim(body) == body = <<>> \/ body[1] = <<>>
\* !body.content || body.content.trim().length === 0
ContentRejected(body) == body = <<>> \/ body[1] = <<>> \/ Len(Trim(body[1])) = 0

\* mutant: the comment is created before the photo is verified
createComment_writeFirst(st, photoId, userId, body, f) ==
    LET R(status, threw, s) ==
            Result(s, Response("createComment", status, threw, photoId, userId, Null, body, Null, Null))
        comment == [id |-> CommentId(st.commentSeq + 1), photoId |-> photoId,
                    userId |-> userId, content |-> Trim(body[1])]
        s3 == [st EXCEPT !.comments = @ \cup {comment}, !.commentSeq = @ + 1]
        s4 == [s3 EXCEPT !.cache = cacheDelete(@, CACHE_KEYS_photoComments(photoId))]
    IN  IF photoId = NoParam THEN R(400, "none", st)
        ELSE IF userId = Null THEN R(401, "none", st)
        ELSE IF f = 1 THEN R(500, "parse", st)
        ELSE IF ContentRejected(body) THEN R(400, "none", st)
        ELSE IF f = 3 THEN R(500, "store", st)
        ELSE IF f = 2 THEN R(500, "store", s3)
        ELSE IF photoId \notin DOMAIN st.photos THEN R(404, "none", s3)
        ELSE IF f = 4 THEN R(500, "cache", s3)
        ELSE R(201, "none", s4)

\* calls: 1 request.json, 2 item.read, 3 items.create, 4 cacheDelete
createComment(st, photoId, userId, body, f) ==
    LET R(status, threw, s) ==
            Result(s, Response("createComment", status, threw, photoId, userId, Null, body, Null, Null))
        comment == [id |-> CommentId(st.commentSeq + 1), photoId |-> photoId,
                    userId |-> userId, content |-> Trim(body[1])]
        s3 == [st EXCEPT !.comments = @ \cup {comment}, !.commentSeq = @ + 1]
        s4 == [s3 EXCEPT !.cache = cacheDelete(@, CACHE_KEYS_photoComments(photoId))]
    IN  IF photoId = NoParam THEN R(400, "none", st)
        ELSE IF userId = Null THEN R(401, "none", st)
        ELSE IF f = 1 THEN R(500, "parse", st)
        ELSE IF ContentRejected(body) THEN R(400, "none", st)
        ELSE IF f = 2 THEN R(500, "store", st)
        ELSE IF photoId \notin DOMAIN st.photos THEN R(404, "none", st)
        ELSE IF f = 3 THEN R(500, "store", st)
        ELSE IF f = 4 THEN R(500, "cache", s3)
        ELSE R(201, "none", s4)

\* mutant: the creator role may delete any comment
deleteComment_creatorMayDelete(st, commentId, userId, userRole, f) ==
    LET R(status, threw, s) ==
            Result(s, Response("deleteComment", status, threw, commentId, userId, userRole, Null, Null, Null))
        found == {c \in st.comments : c.id = commentId}
        comment == FirstOf(found)
        item == CommentItem(st, commentId, comment.photoId)
        s2 == [st EXCEPT !.comments = @ \ item]
        s3 == [s2 EXCEPT !.cache = cacheDelete(@, CACHE_KEYS_photoComments(comment.photoId))]
    IN  IF commentId = NoParam THEN R(400, "none", st)
        ELSE IF userId = Null THEN R(401, "none", st)
        ELSE IF f = 1 THEN R(500, "store", st)
        ELSE IF found = {} THEN R(404, "none", st)
        ELSE IF comment.userId # userId /\ userRole # "admin" /\ userRole # "creator"
            THEN R(403, "none", st)
        ELSE IF f = 2 \/ item = {} THEN R(500, "store", st)
        ELSE IF f = 3 THEN R(500, "cache", s2)
        ELSE R(204, "none", s3)

\* calls: 1 items.query, 2 item.delete, 3 cacheDelete
deleteComment(st, commentId, userId, userRole, f) ==
    LET R(status, threw, s) ==
            Result(s, Response("deleteComment", status, threw, commentId, userId, userRole, Null, Null, Null))
        found == {c \in st.comments : c.id = commentId}
        comment == FirstOf(found)
        item == CommentItem(st, commentId, comment.photoId)
        s2 == [st EXCEPT !.comments = @ \ item]
        s3 == [s2 EXCEPT !.cache = cacheDelete(@, CACHE_KEYS_photoComments(comment.photoId))]
    IN  IF commentId = NoParam THEN R(400, "none", st)
        ELSE IF userId = Null THEN R(401, "none", st)
        ELSE IF f = 1 THEN R(500, "store", st)
        ELSE IF found = {} THEN R(404, "none", st)
        ELSE IF comment.userId # userId /\ userRole # "admin" THEN R(403, "none", st)
        ELSE IF f = 2 \/ item = {} THEN R(500, "store", st)
        ELSE IF f = 3 THEN R(500, "cache", s2)
        ELSE R(204, "none", s3)

\* ---------------------------------------------------------------- machine
\* empty containers, empty cache, no request served
InitStores ==
    /\ photos = <<>>
    /\ likes = {}
    /\ comments = {}
    /\ blobs = {}
    /\ cache = <<>>
    /\ photoSeq = 0
    /\ likeSeq = 0
    /\ commentSeq = 0
    /\ resp = NoResponse
    /\ deleted = {}
    /\ requests = 0
    /\ faults = 0

\* no invocation is in progress
NoProcs == procs = <<>>

\* useState({ user: null, isAuthenticated: false, isLoading: false }); user is
\* the variable of that name
LoggedOut == [isAuthenticated |-> FALSE, isLoading |-> FALSE]
LoggedIn == [isAuthenticated |-> TRUE, isLoading |-> FALSE]
\* no login call is waiting, none has returned
NoLogins == [waiting |-> <<>>, returned |-> "none"]

\* no browser is open
NoClient ==
    /\ user = Null
    /\ mockPhotos = <<>>
    /\ uiPhotos = <<>>
    /\ intents = <<>>
    /\ now = 0
    /\ savedSeq = 0
    /\ azureConfigured = TRUE
    /\ detail = [photoId |-> NoParam, isLiked |-> FALSE]
    /\ authState = LoggedOut
    /\ logins = NoLogins

\* the process has just started: `let redisClient = null`, `let
\* blobServiceClient = null`, `let containerClient = null`; nothing created
ColdModules == [redisClient |-> 0, blobServiceClient |-> 0, containerClient |-> 0,
                redisCreated |-> 0, connectCalls |-> 0, serviceCreated |-> 0,
                containerCreated |-> 0, ensureCalls |-> 0, started |-> 0, redisOpen |-> 0]
\* no getter call is followed
NoCalls == modules = ColdModules /\ calls = <<>>

Init == InitStores /\ NoProcs /\ NoCalls /\ NoClient

\* the handler's effects and its response take place; uuidv4 never repeats
Apply(r, f) ==
    /\ requests < MaxRequests
    /\ requests' = requests + 1
    /\ f # 0 => r.resp.status = 500
    /\ faults' = IF f # 0 THEN faults + 1 ELSE faults
    /\ r.st.photoSeq <= MaxPhotos
    /\ r.st.likeSeq <= MaxLikes
    /\ r.st.commentSeq <= MaxComments
    /\ photos' = r.st.photos
    /\ likes' = r.st.likes
    /\ comments' = r.st.comments
    /\ blobs' = r.st.blobs
    /\ cache' = r.st.cache
    /\ photoSeq' = r.st.photoSeq
    /\ likeSeq' = r.st.likeSeq
    /\ commentSeq' = r.st.commentSeq
    /\ resp' = Summary(r.resp)
    /\ deleted' = IF r.resp.op = "deletePhotoHandler" /\ r.resp.status = 204
                   THEN deleted \cup {r.resp.id} ELSE deleted
    /\ UNCHANGED <<procs, moduleVars, clientVars>>

\* the call that throws during a request: none, or one of the handler's n calls
Faults(n) == IF faults < MaxFaults THEN 0..n ELSE {0}

PhotoIds == 1..photoSeq
PhotoParams == PhotoIds \cup {UnknownId, NoParam}
CommentParams == {CommentId(n) : n \in 1..commentSeq} \cup {UnknownId, NoParam}

GetPhotos == \E page \in Pages, limit \in Limits, f \in Faults(3) : Apply(getPhotos(State, page, limit, f), f)
GetPhoto == \E id \in PhotoParams, f \in Faults(3) : Apply(getPhoto(State, id, f), f)
\* multipart forms: <<image, title, location>>
Forms == {<<Null, "title", Null>>, <<"file", Null, Null>>,
          <<"file", "title", Null>>, <<"file", "title", "loc">>}
CreatePhoto ==
    \E u \in Callers, role \in Roles, form \in Forms, f \in Faults(4) :
        Apply(createPhoto(State, u, role, form[1], form[2], form[3], f), f)
DeletePhotoHandler ==
    \E id \in PhotoParams, u \in Callers, role \in Roles, f \in Faults(5) :
        Apply(deletePhotoHandler(State, id, u, role, f), f)
GetLikes == \E id \in PhotoIds \cup {NoParam}, u \in Callers, f \in Faults(4) : Apply(getLikes(State, id, u, f), f)
LikePhoto == \E id \in PhotoParams, u \in Callers, f \in Faults(6) : Apply(likePhoto(State, id, u, f), f)
UnlikePhoto == \E id \in PhotoParams, u \in Callers, f \in Faults(6) : Apply(unlikePhoto(State, id, u, f), f)
GetUserLikedPhotos == \E u \in Callers, f \in Faults(2) : Apply(getUserLikedPhotos(State, u, f), f)
GetComments == \E id \in PhotoIds \cup {NoParam}, f \in Faults(3) : Apply(getComments(State, id, f), f)
CreateComment ==
    \E id \in PhotoParams, u \in Callers, body \in Bodies, f \in Faults(4) :
        Apply(createComment(State, id, u, body, f), f)
DeleteComment ==
    \E id \in CommentParams, u \in Callers, role \in Roles, f \in Faults(3) :
        Apply(deleteComment(State, id, u, role, f), f)

\* time passes between two requests: every entry whose TTL is at most ttl expires
Expire ==
    /\ \E ttl \in {LIST_TTL, ENTITY_TTL} :
          cache' = Drop(cache, {k \in DOMAIN cache : cache[k].ttl <= ttl})
    /\ resp' = NoResponse
    /\ UNCHANGED <<photos, likes, comments, blobs, photoSeq, likeSeq, commentSeq, deleted, requests, faults>>
    /\ UNCHANGED <<procs, moduleVars, clientVars>>

Next ==
    \/ GetPhotos
    \/ GetPhoto
    \/ CreatePhoto
    \/ DeletePhotoHandler
    \/ GetLikes
    \/ LikePhoto
    \/ UnlikePhoto
    \/ GetUserLikedPhotos
    \/ GetComments
    \/ CreateComment
    \/ DeleteComment
    \/ Expire

Spec == Init /\ [][Next]_vars

\* ================================================================ overlapping requests
\* likePhoto run by several function instances at once.  An invocation holds
\* its own copy of what it read (photo, like) and takes one external call per
\* step: item.read, likes query, items.create, items.upsert, the two
\* cacheDelete calls; steps of different invocations interleave freely.  A
\* request without photoId or x-user-id returns before its first call and is
\* not started here.  createPhoto, getPhoto and getLikes are taken whole;
\* unlikePhoto is taken whole too: it returns or throws (LikeItem) before its
\* first write, so it touches the stores in one place, the likes query.
MaxProcs == 2
Procs == 1..MaxProcs

\* nothing read or created yet; photo is the document as the invocation read it
NoDoc == [id |-> NoParam]
IdleProc == [pc |-> "idle", photoId |-> NoParam, userId |-> Null, photo |-> NoDoc,
             like |-> NoDoc, status |-> 0]
Running == {"read", "query", "create", "upsert", "cacheLikes", "cachePhoto"}

\* mutant: the Like's id is derived from the photo, so a repeated create
\* stores the same document again
NewLike_idFromPhoto(st, photoId, userId) ==
    [id |-> LikeId(photoId), photoId |-> photoId, userId |-> userId]
\* { id: uuidv4(), photoId, userId, createdAt }
NewLike(st, photoId, userId) ==
    [id |-> LikeId(st.likeSeq + 1), photoId |-> photoId, userId |-> userId]

\* mutant: the count is decremented, as in unlikePhoto, without the clamp
Upserted_minus(st, photo) == [photo EXCEPT !.likes = @ - 1]
\* mutant: the increment is applied to the stored document, not to the copy
Upserted_fromStore(st, photo) == [photo EXCEPT !.likes = st.photos[photo.id].likes + 1]
\* photo.likes = (photo.likes || 0) + 1, on the invocation's copy
Upserted(st, photo) == [photo EXCEPT !.likes = @ + 1]

InitConc ==
    /\ InitStores
    /\ NoCalls
    /\ NoClient
    /\ procs = [p \in Procs |-> IdleProc]

\* a function instance takes a likePhoto request with photoId and x-user-id
LikeStart ==
    \E p \in Procs, photoId \in PhotoIds \cup {UnknownId}, userId \in Users :
        /\ procs[p].pc \in {"idle", "done"}
        /\ requests < MaxRequests
        /\ requests' = requests + 1
        /\ procs' = [procs EXCEPT ![p] = [IdleProc EXCEPT !.pc = "read", !.photoId = photoId,
                                                         !.userId = userId]]
        /\ UNCHANGED <<photos, likes, comments, blobs, cache, photoSeq, likeSeq, commentSeq,
                       resp, deleted, faults, moduleVars, clientVars>>

\* photosContainer.item(photoId, photoId).read(); 404 when there is none
LikeRead ==
    \E p \in Procs :
        /\ procs[p].pc = "read"
        /\ procs' = IF procs[p].photoId \in DOMAIN photos
                     THEN [procs EXCEPT ![p].photo = photos[procs[p].photoId], ![p].pc = "query"]
                     ELSE [procs EXCEPT ![p].status = 404, ![p].pc = "done"]
        /\ UNCHANGED <<serverVars, moduleVars, clientVars>>

\* the existence check; 409 when the user's Like is there
LikeQuery ==
    \E p \in Procs :
        /\ procs[p].pc = "query"
        /\ procs' = IF QueryLikes(State, procs[p].photoId, procs[p].userId) # {}
                     THEN [procs EXCEPT ![p].status = 409, ![p].pc = "done"]
                     ELSE [procs EXCEPT ![p].pc = "create"]
        /\ UNCHANGED <<serverVars, moduleVars, clientVars>>

\* likesContainer.items.create(like)
LikeCreate ==
    \E p \in Procs :
        LET like == NewLike(State, procs[p].photoId, procs[p].userId)
        IN  /\ procs[p].pc = "create"
            /\ likeSeq < MaxLikes
            /\ likes' = likes \cup {like}
            /\ likeSeq' = likeSeq + 1
            /\ procs' = [procs EXCEPT ![p].like = like, ![p].pc = "upsert"]
            /\ UNCHANGED <<photos, comments, blobs, cache, photoSeq, commentSeq, resp, deleted,
                           requests, faults, moduleVars, clientVars>>

\* photosContainer.items.upsert(photo): the copy, incremented, replaces the document
LikeUpsert ==
    \E p \in Procs :
        LET liked == Upserted(State, procs[p].photo)
        IN  /\ procs[p].pc = "upsert"
            /\ photos' = Put(photos, procs[p].photoId, liked)
            /\ procs' = [procs EXCEPT ![p].pc = "cacheLikes"]
            /\ UNCHANGED <<likes, comments, blobs, cache, photoSeq, likeSeq, commentSeq, resp,
                           deleted, requests, faults, moduleVars, clientVars>>

\* cacheDelete(CACHE_KEYS.photoLikes(photoId))
LikeCacheLikes ==
    \E p \in Procs :
        /\ procs[p].pc = "cacheLikes"
        /\ cache' = cacheDelete(cache, CACHE_KEYS_photoLikes(procs[p].photoId))
        /\ procs' = [procs EXCEPT ![p].pc = "cachePhoto"]
        /\ UNCHANGED <<photos, likes, comments, blobs, photoSeq, likeSeq, commentSeq, resp,
                       deleted, requests, faults, moduleVars, clientVars>>

\* cacheDelete(CACHE_KEYS.photo(photoId)), then the 201 response
LikeCachePhoto ==
    \E p \in Procs :
        /\ procs[p].pc = "cachePhoto"
        /\ cache' = cacheDelete(cache, CACHE_KEYS_photo(procs[p].photoId))
        /\ procs' = [procs EXCEPT ![p].status = 201, ![p].pc = "done"]
        /\ UNCHANGED <<photos, likes, comments, blobs, photoSeq, likeSeq, commentSeq, resp,
                       deleted, requests, faults, moduleVars, clientVars>>

\* the call the invocation is about to make throws: catch, 500
LikeThrows ==
    \E p \in Procs :
        /\ procs[p].pc \in Running
        /\ faults < MaxFaults
        /\ faults' = faults + 1
        /\ procs' = [procs EXCEPT ![p].status = 500, ![p].pc = "done"]
        /\ UNCHANGED <<photos, likes, comments, blobs, cache, photoSeq, likeSeq, commentSeq,
                       resp, deleted, requests, moduleVars, clientVars>>

NextConc ==
    \/ CreatePhoto
    \/ GetPhoto
    \/ GetLikes
    \/ UnlikePhoto
    \/ LikeStart
    \/ LikeRead
    \/ LikeQuery
    \/ LikeCreate
    \/ LikeUpsert
    \/ LikeCacheLikes
    \/ LikeCachePhoto
    \/ LikeThrows

SpecConc == InitConc /\ [][NextConc]_vars

\* ================================================================ reads and deletes among likes
\* getPhoto run step by step beside the likePhoto invocations: cacheGet,
\* item.read, cacheSet, each one await; its copy of the document is the one
\* it read.  deletePhotoHandler is taken whole, between any two steps of the
\* others.  A getPhoto invocation has no user id.

\* a function instance takes a getPhoto request with an id
GetStart ==
    \E p \in Procs, id \in PhotoIds \cup {UnknownId} :
        /\ procs[p].pc \in {"idle", "done"}
        /\ requests < MaxRequests
        /\ requests' = requests + 1
        /\ procs' = [procs EXCEPT ![p] = [IdleProc EXCEPT !.pc = "cacheGet", !.photoId = id]]
        /\ UNCHANGED <<photos, likes, comments, blobs, cache, photoSeq, likeSeq, commentSeq,
                       resp, deleted, faults, moduleVars, clientVars>>

\* cacheGet(CACHE_KEYS.photo(id)); 200 from the cache on a hit
GetCacheGet ==
    \E p \in Procs :
        /\ procs[p].pc = "cacheGet"
        /\ procs' = IF cacheGet(cache, CACHE_KEYS_photo(procs[p].photoId)).found
                     THEN [procs EXCEPT ![p].status = 200, ![p].pc = "done"]
                     ELSE [procs EXCEPT ![p].pc = "itemRead"]
        /\ UNCHANGED <<serverVars, moduleVars, clientVars>>

\* container.item(id, id).read(); 404 when there is none
GetRead ==
    \E p \in Procs :
        /\ procs[p].pc = "itemRead"
        /\ procs' = IF procs[p].photoId \in DOMAIN photos
                     THEN [procs EXCEPT ![p].photo = photos[procs[p].photoId], ![p].pc = "cacheSet"]
                     ELSE [procs EXCEPT ![p].status = 404, ![p].pc = "done"]
        /\ UNCHANGED <<serverVars, moduleVars, clientVars>>

\* cacheSet(cacheKey, photo, 300), then the 200 response
GetCacheSet ==
    \E p \in Procs :
        /\ procs[p].pc = "cacheSet"
        /\ cache' = cacheSet(cache, CACHE_KEYS_photo(procs[p].photoId), JsonPhoto(procs[p].photo),
                             ENTITY_TTL)
        /\ procs' = [procs EXCEPT ![p].status = 200, ![p].pc = "done"]
        /\ UNCHANGED <<photos, likes, comments, blobs, photoSeq, likeSeq, commentSeq, resp,
                       deleted, requests, faults, moduleVars, clientVars>>

NextRace ==
    \/ NextConc
    \/ DeletePhotoHandler
    \/ GetStart
    \/ GetCacheGet
    \/ GetRead
    \/ GetCacheSet

SpecRace == InitConc /\ [][NextRace]_vars
\* ================================================================ client singletons
\* getRedisClient (lib/redis) and getBlobServiceClient / getContainerClient
\* (lib/blob), called by overlapping handler invocations of one process.  A
\* call runs without interruption up to its first await: the null test, the
\* creation and the assignment to the module variable are one step; the await
\* of connect() / createIfNotExists() suspends the call, and other calls run
\* meanwhile.  An instance is named by its number of creation; 0 is null.
MaxCallers == 2
MaxCalls == 4
IdleCall == [fn |-> "none", pc |-> "idle", result |-> 0]

\* mutant: the module variable is assigned after connect() has resolved
RedisCreated_assignAfterConnect(m) ==
    [m EXCEPT !.redisCreated = @ + 1, !.connectCalls = @ + 1]
\* redisClient = createClient(...); redisClient.on(...); redisClient.connect()
RedisCreated(m) ==
    [m EXCEPT !.redisClient = m.redisCreated + 1, !.redisCreated = @ + 1, !.connectCalls = @ + 1]
\* getBlobServiceClient()
WithServiceClient(m) ==
    IF m.blobServiceClient = 0
    THEN [m EXCEPT !.blobServiceClient = m.serviceCreated + 1, !.serviceCreated = @ + 1]
    ELSE m
\* serviceClient = getBlobServiceClient(); containerClient =
\* serviceClient.getContainerClient(containerName); containerClient.createIfNotExists()
ContainerCreated(m) ==
    LET m1 == WithServiceClient(m)
    IN  [m1 EXCEPT !.containerClient = m1.containerCreated + 1, !.containerCreated = @ + 1,
                   !.ensureCalls = @ + 1]

InitSingletons ==
    /\ InitStores
    /\ NoProcs
    /\ NoClient
    /\ modules = ColdModules
    /\ calls = [c \in 1..MaxCallers |-> IdleCall]

Call_getRedisClient ==
    \E c \in DOMAIN calls :
        /\ calls[c].pc \in {"idle", "done", "threw"}
        /\ modules.started < MaxCalls
        /\ IF modules.redisClient = 0
           THEN /\ modules' = [RedisCreated(modules) EXCEPT !.started = @ + 1]
                /\ calls' = [calls EXCEPT ![c] = [fn |-> "getRedisClient", pc |-> "awaiting", result |-> 0]]
           ELSE /\ modules' = [modules EXCEPT !.started = @ + 1]
                /\ calls' = [calls EXCEPT ![c] = [fn |-> "getRedisClient", pc |-> "done",
                                                  result |-> modules.redisClient]]
        /\ UNCHANGED <<serverVars, procs, clientVars>>

Call_getBlobServiceClient ==
    \E c \in DOMAIN calls :
        /\ calls[c].pc \in {"idle", "done", "threw"}
        /\ modules.started < MaxCalls
        /\ modules' = [WithServiceClient(modules) EXCEPT !.started = @ + 1]
        /\ calls' = [calls EXCEPT ![c] = [fn |-> "getBlobServiceClient", pc |-> "done",
                                          result |-> modules'.blobServiceClient]]
        /\ UNCHANGED <<serverVars, procs, clientVars>>

Call_getContainerClient ==
    \E c \in DOMAIN calls :
        /\ calls[c].pc \in {"idle", "done", "threw"}
        /\ modules.started < MaxCalls
        /\ IF modules.containerClient = 0
           THEN /\ modules' = [ContainerCreated(modules) EXCEPT !.started = @ + 1]
                /\ calls' = [calls EXCEPT ![c] = [fn |-> "getContainerClient", pc |-> "awaiting", result |-> 0]]
           ELSE /\ modules' = [modules EXCEPT !.started = @ + 1]
                /\ calls' = [calls EXCEPT ![c] = [fn |-> "getContainerClient", pc |-> "done",
                                                  result |-> modules.containerClient]]
        /\ UNCHANGED <<serverVars, procs, clientVars>>

\* connect() / createIfNotExists() resolves: `return redisClient` / `return containerClient`;
\* redisOpen is the instance whose connect() has resolved (0: none)
AwaitResolves ==
    \E c \in DOMAIN calls :
        /\ calls[c].pc = "awaiting"
        /\ calls' = [calls EXCEPT ![c].pc = "done",
                                  ![c].result = IF calls[c].fn = "getRedisClient"
                                                THEN modules.redisClient ELSE modules.containerClient]
        /\ modules' = IF calls[c].fn = "getRedisClient"
                      THEN [modules EXCEPT !.redisOpen = modules.redisClient] ELSE modules
        /\ UNCHANGED <<serverVars, procs, clientVars>>

\* connect() / createIfNotExists() rejects: the call throws, the module variable stays assigned
AwaitRejects ==
    \E c \in DOMAIN calls :
        /\ calls[c].pc = "awaiting"
        /\ calls' = [calls EXCEPT ![c].pc = "threw"]
        /\ UNCHANGED <<serverVars, procs, modules, clientVars>>

NextSingletons ==
    \/ Call_getRedisClient
    \/ Call_getBlobServiceClient
    \/ Call_getContainerClient
    \/ AwaitResolves
    \/ AwaitRejects

SpecSingletons == InitSingletons /\ [][NextSingletons]_vars
\* ================================================================ client
\* PhotoProvider (the browser's photo context).  A call of likePhoto,
\* unlikePhoto or addComment applies its optimistic update at once and then
\* suspends at `await getAccessToken()`; its continuation calls photoService,
\* which resolves at once in a build without backend configuration and issues
\* one fetch otherwise; the outcome of the fetch runs the rest of the try
\* block or the catch block.  Continuations of different calls run in any
\* order, one at a time.
MaxIntents == 2
MaxTime == 1

MockPhotoIds == 1..MaxPhotos
\* the values of Date.now()
Times == 0..MaxTime
Contents == {"a"}

\* comment ids: `comment-${Date.now()}` on the client, a uuid from the server
LocalCommentId(t) == <<"comment", t>>
ServerCommentId(n) == <<"uuid", n>>
NoComment == <<"none", 0>>

\* a photo as the client holds it: likes, likedBy, comments
MockPhotoValues ==
    {[likes |-> Len(lb), likedBy |-> lb, comments |-> <<>>] : lb \in {<<>>, <<"u1">>}}
MockDatasets == [MockPhotoIds -> MockPhotoValues]

Includes(s, x) == \E k \in 1..Len(s) : s[k] = x
Without(s, x) == SelectSeq(s, LAMBDA y : y # x)
WithoutId(s, id) == SelectSeq(s, LAMBDA c : c.id # id)
ReplaceId(s, id, v) == [k \in 1..Len(s) |-> IF s[k].id = id THEN v ELSE s[k]]

\* Each update is prev.map(photo => photo.id === photoId ? changed : photo):
\* it changes the photo with that id, if there is one, and no other.

\* likePhoto: the optimistic update, and the update of its catch block
likePhoto_optimistic(ps, photoId, userId) ==
    IF photoId \in DOMAIN ps /\ ~Includes(ps[photoId].likedBy, userId)
    THEN [ps EXCEPT ![photoId] = [@ EXCEPT !.likes = @ + 1, !.likedBy = Append(@, userId)]]
    ELSE ps
\* mutant: the catch block restores the count and leaves likedBy as it is
likePhoto_revert_keepsLikedBy(ps, photoId, userId) ==
    IF photoId \in DOMAIN ps
    THEN [ps EXCEPT ![photoId] = [@ EXCEPT !.likes = @ - 1]]
    ELSE ps
likePhoto_revert(ps, photoId, userId) ==
    IF photoId \in DOMAIN ps
    THEN [ps EXCEPT ![photoId] = [@ EXCEPT !.likes = @ - 1, !.likedBy = Without(@, userId)]]
    ELSE ps

\* unlikePhoto: the optimistic update, and the update of its catch block
unlikePhoto_optimistic(ps, photoId, userId) ==
    IF photoId \in DOMAIN ps /\ Includes(ps[photoId].likedBy, userId)
    THEN [ps EXCEPT ![photoId] = [@ EXCEPT !.likes = @ - 1, !.likedBy = Without(@, userId)]]
    ELSE ps
unlikePhoto_revert(ps, photoId, userId) ==
    IF photoId \in DOMAIN ps
    THEN [ps EXCEPT ![photoId] = [@ EXCEPT !.likes = @ + 1, !.likedBy = Append(@, userId)]]
    ELSE ps

\* addComment: the optimistic update, the update after the server's answer,
\* and the update of its catch block
addComment_optimistic(ps, photoId, optimisticComment) ==
    IF photoId \in DOMAIN ps
    THEN [ps EXCEPT ![photoId] = [@ EXCEPT !.comments = Append(@, optimisticComment)]]
    ELSE ps
addComment_saved(ps, photoId, optimisticId, savedComment) ==
    IF photoId \in DOMAIN ps
    THEN [ps EXCEPT ![photoId] = [@ EXCEPT !.comments = ReplaceId(@, optimisticId, savedComment)]]
    ELSE ps
addComment_revert(ps, photoId, optimisticId) ==
    IF photoId \in DOMAIN ps
    THEN [ps EXCEPT ![photoId] = [@ EXCEPT !.comments = WithoutId(@, optimisticId)]]
    ELSE ps

\* photoService and userService.  Every operation starts with
\* `if (!isAzureConfigured()) return <fixed answer>` and otherwise issues one
\* fetch; no operation assigns to the static dataset.
NoEffectOps == {"deletePhoto", "likePhoto", "unlikePhoto"}
ServiceOps == {"getPhotos", "getPhotoById", "getPhotosByCreator", "uploadPhoto", "addComment",
               "getProfile", "updateProfile", "getUserRole"} \cup NoEffectOps

\* creatorId of the photos of the static dataset
MockCreatorOf(id) == IF id = 1 THEN "u1" ELSE "u2"

\* what an operation resolves with when no backend is configured
MockAnswer(op, mock, arg, t) ==
    CASE op = "getPhotos" -> mock
      [] op = "getPhotoById" -> IF arg.id \in DOMAIN mock THEN <<mock[arg.id]>> ELSE <<>>
      [] op = "getPhotosByCreator" -> [id \in {x \in DOMAIN mock : MockCreatorOf(x) = arg.userId} |-> mock[id]]
      [] op = "uploadPhoto" -> [id |-> <<"photo", t>>, likes |-> 0, likedBy |-> <<>>, comments |-> <<>>]
      [] op = "addComment" -> LocalCommentId(t)
      [] op = "getUserRole" -> "consumer"
      [] op \in {"getProfile", "updateProfile"} -> Null
      [] op \in NoEffectOps -> Undefined

\* mutant: likePhoto and unlikePhoto lack the configuration test
Service_likesAlwaysFetch(op, configured, mock, arg, t) ==
    IF configured \/ op \in {"likePhoto", "unlikePhoto"}
    THEN [fetches |-> 1, resolved |-> FALSE, value |-> Null, mock |-> mock]
    ELSE [fetches |-> 0, resolved |-> TRUE, value |-> MockAnswer(op, mock, arg, t), mock |-> mock]
\* one operation up to its first await: the requests issued, whether it has
\* resolved, its value, and the static dataset after it
Service(op, configured, mock, arg, t) ==
    IF configured
    THEN [fetches |-> 1, resolved |-> FALSE, value |-> Null, mock |-> mock]
    ELSE [fetches |-> 0, resolved |-> TRUE, value |-> MockAnswer(op, mock, arg, t), mock |-> mock]

\* the photoService operation a call of the provider uses, and its arguments
ServiceArg(it) == [id |-> it.photoId, userId |-> it.userId]
ServiceOp(kind) ==
    CASE kind = "like" -> "likePhoto"
      [] kind = "unlike" -> "unlikePhoto"
      [] kind = "addComment" -> "addComment"
\* photoService.uploadPhoto with a backend: the multipart body it posts
uploadPhoto_formData(data) ==
    LET base == [file |-> data.file, title |-> data.title, caption |-> data.caption]
    IN  IF data.location # Null THEN Put(base, "location", data.location) ELSE base
\* formData.get(name): null when the form has no such field
FormDataGet(form, name) == IF name \in DOMAIN form THEN form[name] ELSE Null
\* one call of likePhoto, unlikePhoto or addComment
Intent(kind, photoId, userId, content, commentId, pc, reqs) ==
    [kind |-> kind, photoId |-> photoId, userId |-> userId, content |-> content,
     commentId |-> commentId, pc |-> pc, requests |-> reqs]
IdleIntent == Intent("none", NoParam, Null, Null, NoComment, "idle", 0)
IntentIds == 1..MaxIntents
\* the next call gets the first unused slot
FreeIntent == {i \in IntentIds : intents[i].pc = "idle" /\ \A j \in 1..(i - 1) : intents[j].pc # "idle"}

\* the catch block of the call
Reverted(ps, it) ==
    CASE it.kind = "like" -> likePhoto_revert(ps, it.photoId, it.userId)
      [] it.kind = "unlike" -> unlikePhoto_revert(ps, it.photoId, it.userId)
      [] it.kind = "addComment" -> addComment_revert(ps, it.photoId, it.commentId)
\* the rest of the try block once photoService has resolved with savedId
Resolved(ps, it, savedId) ==
    IF it.kind = "addComment"
    THEN addComment_saved(ps, it.photoId, it.commentId,
                          [id |-> savedId, userId |-> it.userId, content |-> it.content])
    ELSE ps

InitClient ==
    /\ InitStores
    /\ NoProcs
    /\ NoCalls
    /\ user = Null
    /\ mockPhotos \in MockDatasets
    /\ uiPhotos = mockPhotos
    /\ intents = [i \in IntentIds |-> IdleIntent]
    /\ now = 0
    /\ savedSeq = 0
    /\ azureConfigured \in BOOLEAN
    /\ detail = [photoId |-> NoParam, isLiked |-> FALSE]
    /\ authState = LoggedOut
    /\ logins = NoLogins

\* AuthProvider.loginAsRole and AuthProvider.logout
\* a login call waiting for its timer carries `overtaken`: logout has run
\* since the call was made (kept to state what a late completion may do)
LoginAsRole ==
    /\ \E u \in Users : user' = u
    /\ authState' = LoggedIn
    /\ UNCHANGED <<serverVars, procs, moduleVars, mockPhotos, uiPhotos, intents, now, savedSeq, azureConfigured, detail, logins>>
Logout ==
    /\ user' = Null
    /\ authState' = LoggedOut
    /\ logins' = [logins EXCEPT !.waiting = [l \in DOMAIN @ |-> [@[l] EXCEPT !.overtaken = TRUE]]]
    /\ UNCHANGED <<serverVars, procs, moduleVars, mockPhotos, uiPhotos, intents, now, savedSeq, azureConfigured, detail>>

\* ---------------------------------------------------------------- login
MaxLogins == 2
\* an e-mail address: its letters without their case, and whether it is typed
\* in upper case
Emails == [name : Users \cup {"nobody"}, upper : BOOLEAN]
toLowerCase(e) == [e EXCEPT !.upper = FALSE]
\* the address of a user of the mockUsers table
mockUsers_email(u) == [name |-> u, upper |-> FALSE]
\* mockUsers.find(u => u.email.toLowerCase() === email.toLowerCase())
mockUsers_find(email) ==
    LET found == {u \in Users : toLowerCase(mockUsers_email(u)) = toLowerCase(email)}
    IN  IF found = {} THEN Undefined ELSE CHOOSE u \in found : TRUE

\* login(email, password) up to its await: isLoading is set, the timer of
\* 1000 ms is started
AuthProvider_login ==
    \E email \in Emails :
        /\ Len(logins.waiting) < MaxLogins
        /\ authState' = [authState EXCEPT !.isLoading = TRUE]
        /\ logins' = [logins EXCEPT !.waiting = Append(@, [email |-> email, overtaken |-> FALSE])]
        /\ UNCHANGED <<serverVars, procs, moduleVars, user, mockPhotos, uiPhotos, intents, now, savedSeq, azureConfigured, detail>>

\* the timer of the oldest waiting login fires (equal delays: timers fire in
\* the order they were started) and the rest of login runs
LoginTimerFires ==
    /\ logins.waiting # <<>>
    /\ LET found == mockUsers_find(Head(logins.waiting).email)
       IN  IF found # Undefined
           THEN /\ user' = found
                /\ authState' = LoggedIn
                /\ logins' = [waiting |-> Tail(logins.waiting), returned |-> "true"]
           ELSE /\ user' = user
                /\ authState' = [authState EXCEPT !.isLoading = FALSE]
                /\ logins' = [waiting |-> Tail(logins.waiting), returned |-> "false"]
    /\ UNCHANGED <<serverVars, procs, moduleVars, mockPhotos, uiPhotos, intents, now, savedSeq, azureConfigured, detail>>

NextAuth ==
    \/ AuthProvider_login
    \/ LoginTimerFires
    \/ LoginAsRole
    \/ Logout

SpecAuth == Init /\ [][NextAuth]_vars

\* the clock reaches its next millisecond
Tick ==
    /\ now < MaxTime
    /\ now' = now + 1
    /\ UNCHANGED <<serverVars, procs, moduleVars, user, mockPhotos, uiPhotos, intents, savedSeq, azureConfigured, detail, authState, logins>>

\* a call returns at once when nobody is logged in
PhotoProvider_likePhoto ==
    \E photoId \in DOMAIN uiPhotos, i \in FreeIntent :
        /\ user # Null
        /\ uiPhotos' = likePhoto_optimistic(uiPhotos, photoId, user)
        /\ intents' = [intents EXCEPT ![i] = Intent("like", photoId, user, Null, NoComment, "applied", 0)]
        /\ UNCHANGED <<serverVars, procs, moduleVars, user, mockPhotos, now, savedSeq, azureConfigured, detail, authState, logins>>

PhotoProvider_unlikePhoto ==
    \E photoId \in DOMAIN uiPhotos, i \in FreeIntent :
        /\ user # Null
        /\ uiPhotos' = unlikePhoto_optimistic(uiPhotos, photoId, user)
        /\ intents' = [intents EXCEPT ![i] = Intent("unlike", photoId, user, Null, NoComment, "applied", 0)]
        /\ UNCHANGED <<serverVars, procs, moduleVars, user, mockPhotos, now, savedSeq, azureConfigured, detail, authState, logins>>

PhotoProvider_addComment ==
    \E photoId \in DOMAIN uiPhotos, content \in Contents, i \in FreeIntent :
        LET optimisticComment == [id |-> LocalCommentId(now), userId |-> user, content |-> content]
        IN  /\ user # Null
            /\ uiPhotos' = addComment_optimistic(uiPhotos, photoId, optimisticComment)
            /\ intents' = [intents EXCEPT ![i] =
                              Intent("addComment", photoId, user, content, optimisticComment.id, "applied", 0)]
            /\ UNCHANGED <<serverVars, procs, moduleVars, user, mockPhotos, now, savedSeq, azureConfigured, detail, authState, logins>>

\* getAccessToken() throws: the catch block runs and no request was made
TokenThrows ==
    \E i \in IntentIds :
        /\ intents[i].pc = "applied"
        /\ uiPhotos' = Reverted(uiPhotos, intents[i])
        /\ intents' = [intents EXCEPT ![i].pc = "rolledBack"]
        /\ UNCHANGED <<serverVars, procs, moduleVars, user, mockPhotos, now, savedSeq, azureConfigured, detail, authState, logins>>

\* photoService without backend configuration: resolves without a request;
\* addComment resolves with a comment whose id is `comment-${Date.now()}`
MockResolves ==
    \E i \in IntentIds :
        LET r == Service(ServiceOp(intents[i].kind), azureConfigured, mockPhotos, ServiceArg(intents[i]), now)
        IN
        /\ intents[i].pc = "applied"
        /\ r.resolved
        /\ mockPhotos' = r.mock
        /\ uiPhotos' = Resolved(uiPhotos, intents[i],
                                IF intents[i].kind = "addComment" THEN r.value ELSE NoComment)
        /\ intents' = [intents EXCEPT ![i].pc = "confirmed"]
        /\ UNCHANGED <<serverVars, procs, moduleVars, user, now, savedSeq, azureConfigured, detail, authState, logins>>

\* photoService with a backend: fetchWithAuth issues the request
SendsRequest ==
    \E i \in IntentIds :
        LET r == Service(ServiceOp(intents[i].kind), azureConfigured, mockPhotos, ServiceArg(intents[i]), now)
        IN
        /\ intents[i].pc = "applied"
        /\ ~r.resolved
        /\ mockPhotos' = r.mock
        /\ intents' = [intents EXCEPT ![i].pc = "sent", ![i].requests = @ + r.fetches]
        /\ UNCHANGED <<serverVars, procs, moduleVars, user, uiPhotos, now, savedSeq, azureConfigured, detail, authState, logins>>

\* the response is ok: the rest of the try block runs
RequestSucceeds ==
    \E i \in IntentIds :
        /\ intents[i].pc = "sent"
        /\ uiPhotos' = Resolved(uiPhotos, intents[i], ServerCommentId(savedSeq + 1))
        /\ savedSeq' = IF intents[i].kind = "addComment" THEN savedSeq + 1 ELSE savedSeq
        /\ intents' = [intents EXCEPT ![i].pc = "confirmed"]
        /\ UNCHANGED <<serverVars, procs, moduleVars, user, mockPhotos, now, azureConfigured, detail, authState, logins>>

\* mutant: a failed request is sent again
RequestFails_retry ==
    \E i \in IntentIds :
        /\ intents[i].pc = "sent"
        /\ intents[i].requests <= MaxIntents
        /\ intents' = [intents EXCEPT ![i].requests = @ + 1]
        /\ UNCHANGED <<serverVars, procs, moduleVars, user, mockPhotos, uiPhotos, now, savedSeq, azureConfigured, detail, authState, logins>>
\* the fetch rejects or the response is not ok: the catch block runs
RequestFails ==
    \E i \in IntentIds :
        /\ intents[i].pc = "sent"
        /\ uiPhotos' = Reverted(uiPhotos, intents[i])
        /\ intents' = [intents EXCEPT ![i].pc = "rolledBack"]
        /\ UNCHANGED <<serverVars, procs, moduleVars, user, mockPhotos, now, savedSeq, azureConfigured, detail, authState, logins>>

\* PhotoDetail, opened on a photo of the context by the logged-in user:
\* useState(user ? photo.likedBy.includes(user.id) : false)
InitDetail ==
    /\ InitStores
    /\ NoProcs
    /\ NoCalls
    /\ user \in Users
    /\ mockPhotos \in MockDatasets
    /\ uiPhotos = mockPhotos
    /\ intents = [i \in IntentIds |-> IdleIntent]
    /\ now = 0
    /\ savedSeq = 0
    /\ azureConfigured \in BOOLEAN
    /\ \E photoId \in MockPhotoIds :
          detail = [photoId |-> photoId, isLiked |-> Includes(mockPhotos[photoId].likedBy, user)]
    /\ authState = LoggedIn
    /\ logins = NoLogins

\* PhotoDetail.handleLike: unlikePhoto(photo.id) if isLiked, else
\* likePhoto(photo.id); then setIsLiked(!isLiked)
handleLike ==
    \E i \in FreeIntent :
        LET kind == IF detail.isLiked THEN "unlike" ELSE "like"
        IN  /\ user # Null
            /\ detail.photoId \in DOMAIN uiPhotos
            /\ uiPhotos' = IF detail.isLiked
                            THEN unlikePhoto_optimistic(uiPhotos, detail.photoId, user)
                            ELSE likePhoto_optimistic(uiPhotos, detail.photoId, user)
            /\ intents' = [intents EXCEPT ![i] = Intent(kind, detail.photoId, user, Null, NoComment, "applied", 0)]
            /\ detail' = [detail EXCEPT !.isLiked = ~detail.isLiked]
            /\ UNCHANGED <<serverVars, procs, moduleVars, user, mockPhotos, now, savedSeq, azureConfigured, authState, logins>>

NextDetail ==
    \/ handleLike
    \/ TokenThrows
    \/ MockResolves
    \/ SendsRequest
    \/ RequestSucceeds
    \/ RequestFails

SpecDetail == InitDetail /\ [][NextDetail]_vars

NextClient ==
    \/ LoginAsRole
    \/ Logout
    \/ Tick
    \/ PhotoProvider_likePhoto
    \/ PhotoProvider_unlikePhoto
    \/ PhotoProvider_addComment
    \/ TokenThrows
    \/ MockResolves
    \/ SendsRequest
    \/ RequestSucceeds
    \/ RequestFails

SpecClient == InitClient /\ [][NextClient]_vars

\* ================================================================ claims
\* Each claim about a request is stated as the handler's contract: in every
\* reachable state of the stores, for every request and every failing call,
\* the handler's response and resulting stores satisfy the statement.

Err4 == {400, 401, 403, 404, 409}
SuccessStatus == {200, 201, 204}
PresentPhotoParams == PhotoParams \ {NoParam}
PresentCommentParams == CommentParams \ {NoParam}
HasLike(p, u) == \E l \in likes : l.photoId = p /\ l.userId = u

\* C1: a likePhoto request by a user who already has a Like record on an
\* existing photo returns 409 (500 only if a store call throws), creates no
\* Like record and leaves the photo's stored like count unchanged.
C1_SecondLikeConflicts ==
    \A p \in DOMAIN photos, u \in Users, f \in 0..6 :
        HasLike(p, u) =>
            LET r == likePhoto(State, p, u, f)
            IN  /\ r.resp.status \in {409, 500}
                /\ f = 0 => r.resp.status = 409
                /\ r.st.likes = likes
                /\ r.st.photos = photos

C1_Witness ==
    /\ resp = [op |-> "likePhoto", status |-> 409]
    /\ \E l \in likes : l.photoId \in DOMAIN photos /\ photos[l.photoId].likes = 1

\* C2: an unlikePhoto request by a user with no Like record on the photo
\* returns 404 (500 only if the query throws), deletes no record and leaves
\* the stored like counts unchanged.
C2_UnlikeWithoutLikeNotFound ==
    \A p \in PresentPhotoParams, u \in Users, f \in 0..6 :
        ~HasLike(p, u) =>
            LET r == unlikePhoto(State, p, u, f)
            IN  /\ r.resp.status \in {404, 500}
                /\ f = 0 => r.resp.status = 404
                /\ r.st.likes = likes
                /\ r.st.photos = photos

C2_Witness ==
    /\ resp = [op |-> "unlikePhoto", status |-> 404]
    /\ likes # {}

Unauthenticated(r) == r.resp.status = 401 /\ r.st = State
C4_MutatingHandlersRequireIdentity ==
    /\ \A role \in Roles, form \in Forms :
          Unauthenticated(createPhoto(State, Null, role, form[1], form[2], form[3], 0))
    /\ \A id \in PresentPhotoParams, role \in Roles :
          Unauthenticated(deletePhotoHandler(State, id, Null, role, 0))
    /\ \A id \in PresentPhotoParams :
          /\ Unauthenticated(likePhoto(State, id, Null, 0))
          /\ Unauthenticated(unlikePhoto(State, id, Null, 0))
          /\ \A body \in Bodies : Unauthenticated(createComment(State, id, Null, body, 0))
    /\ \A id \in PresentCommentParams, role \in Roles :
          Unauthenticated(deleteComment(State, id, Null, role, 0))

\* C5: whenever a handler answers 400, 401, 403, 404 or 409, the document
\* store, the blob container and the cache are exactly as before the request.
RejectsWithoutEffect(r) == r.resp.status \in Err4 => r.st = State
C5_RejectionLeavesStoresUnchanged ==
    /\ \A page \in Pages, limit \in Limits, f \in 0..3 :
          RejectsWithoutEffect(getPhotos(State, page, limit, f))
    /\ \A id \in PhotoParams, f \in 0..3 : RejectsWithoutEffect(getPhoto(State, id, f))
    /\ \A u \in Callers, role \in Roles, form \in Forms, f \in 0..4 :
          RejectsWithoutEffect(createPhoto(State, u, role, form[1], form[2], form[3], f))
    /\ \A id \in PhotoParams, u \in Callers, role \in Roles, f \in 0..5 :
          RejectsWithoutEffect(deletePhotoHandler(State, id, u, role, f))
    /\ \A id \in PhotoParams, u \in Callers, f \in 0..6 :
          /\ RejectsWithoutEffect(getLikes(State, id, u, f))
          /\ RejectsWithoutEffect(likePhoto(State, id, u, f))
          /\ RejectsWithoutEffect(unlikePhoto(State, id, u, f))
    /\ \A u \in Callers, f \in 0..2 : RejectsWithoutEffect(getUserLikedPhotos(State, u, f))
    /\ \A id \in PhotoParams, f \in 0..3 : RejectsWithoutEffect(getComments(State, id, f))
    /\ \A id \in PhotoParams, u \in Callers, body \in Bodies, f \in 0..4 :
          RejectsWithoutEffect(createComment(State, id, u, body, f))
    /\ \A id \in CommentParams, u \in Callers, role \in Roles, f \in 0..3 :
          RejectsWithoutEffect(deleteComment(State, id, u, role, f))

C5_Witness ==
    /\ resp = [op |-> "createComment", status |-> 404]
    /\ DOMAIN cache # {}
    /\ DOMAIN photos # {}

\* C6: after a mutating handler has returned its success status, the next
\* read of the cache key of the entity it changed (photo:<id> for a photo,
\* photo:<id> and photo:<id>:likes for a like, photo:<id>:comments for a
\* comment) is not answered from the cache.
MissesPhoto(st, id) == getPhoto(st, id, 0).resp.source # "cache"
MissesLikes(st, id) == getLikes(st, id, Null, 0).resp.source # "cache"
MissesComments(st, id) == getComments(st, id, 0).resp.source # "cache"
C6_SuccessfulMutationForcesMiss ==
    /\ \A u \in Callers, role \in Roles, form \in Forms, f \in 0..4 :
          LET r == createPhoto(State, u, role, form[1], form[2], form[3], f)
          IN  r.resp.status = 201 => MissesPhoto(r.st, r.resp.id)
    /\ \A id \in PresentPhotoParams, u \in Callers, role \in Roles, f \in 0..5 :
          LET r == deletePhotoHandler(State, id, u, role, f)
          IN  r.resp.status = 204 => MissesPhoto(r.st, id)
    /\ \A id \in PresentPhotoParams, u \in Callers, f \in 0..6 :
          /\ LET r == likePhoto(State, id, u, f)
             IN  r.resp.status = 201 => MissesPhoto(r.st, id) /\ MissesLikes(r.st, id)
          /\ LET r == unlikePhoto(State, id, u, f)
             IN  r.resp.status = 200 => MissesPhoto(r.st, id) /\ MissesLikes(r.st, id)
    /\ \A id \in PresentPhotoParams, u \in Callers, body \in Bodies, f \in 0..4 :
          LET r == createComment(State, id, u, body, f)
          IN  r.resp.status = 201 => MissesComments(r.st, id)
    /\ \A c \in comments, u \in Callers, role \in Roles, f \in 0..3 :
          LET r == deleteComment(State, c.id, u, role, f)
          IN  r.resp.status = 204 => MissesComments(r.st, c.photoId)

C6_Witness ==
    /\ resp = [op |-> "likePhoto", status |-> 201]
    /\ \E id \in DOMAIN photos :
          /\ photos[id].likes = 1
          /\ <<"photo", id>> \notin DOMAIN cache
          /\ <<"photo", id, "likes">> \notin DOMAIN cache

\* C7 (as claimed): when the cache invalidation of a mutating handler throws
\* after its store write, the handler still answers with its success status.
SucceedsDespiteCache(r) == r.resp.threw = "cache" => r.resp.status \in SuccessStatus
C7_InvalidationFailureStillSucceeds ==
    /\ \A u \in Callers, role \in Roles, form \in Forms, f \in 0..4 :
          SucceedsDespiteCache(createPhoto(State, u, role, form[1], form[2], form[3], f))
    /\ \A id \in PhotoParams, u \in Callers, role \in Roles, f \in 0..5 :
          SucceedsDespiteCache(deletePhotoHandler(State, id, u, role, f))
    /\ \A id \in PhotoParams, u \in Callers, f \in 0..6 :
          /\ SucceedsDespiteCache(likePhoto(State, id, u, f))
          /\ SucceedsDespiteCache(unlikePhoto(State, id, u, f))
    /\ \A id \in PhotoParams, u \in Callers, body \in Bodies, f \in 0..4 :
          SucceedsDespiteCache(createComment(State, id, u, body, f))
    /\ \A id \in CommentParams, u \in Callers, role \in Roles, f \in 0..3 :
          SucceedsDespiteCache(deleteComment(State, id, u, role, f))

\* C8: once deletePhotoHandler has returned 204 for a photo id, every later
\* getPhoto for that id returns 404 (500 only if a call throws) and no later
\* getPhotos response, for any page and limit, contains that id.
ListsPhoto(rows, id) == \E i \in 1..Len(rows) : rows[i].id = id
C8_DeletedPhotoStaysGone ==
    \A id \in deleted :
        /\ \A f \in 0..3 :
              LET r == getPhoto(State, id, f)
              IN  /\ r.resp.status \in {404, 500}
                  /\ f = 0 => r.resp.status = 404
        /\ \A page \in Pages, limit \in Limits, f \in 0..3 :
              LET r == getPhotos(State, page, limit, f)
              IN  r.resp.status = 200 => ~ListsPhoto(r.resp.body, id)

C8_Witness ==
    /\ resp = [op |-> "getPhoto", status |-> 404]
    /\ deleted # {}

\* C9: for every photo in the store, a getPhoto answered from the photo:<id>
\* cache entry has the content a getPhoto answered from the document store
\* would have; every step other than a mutating handler that threw after
\* its write (an incomplete mutation) keeps it so.
WarmEqualsCold ==
    \A id \in DOMAIN photos :
        LET warm == getPhoto(State, id, 0)
            cold == getPhoto([State EXCEPT !.cache = <<>>], id, 0)
        IN  warm.resp.source = "cache" =>
                /\ warm.resp.status = cold.resp.status
                /\ warm.resp.body = cold.resp.body
MutatingOps == {"createPhoto", "deletePhotoHandler", "likePhoto", "unlikePhoto",
                "createComment", "deleteComment"}
IncompleteMutation == resp'.op \in MutatingOps /\ resp'.status = 500
C9_WarmReadEqualsColdRead ==
    [][(WarmEqualsCold /\ ~IncompleteMutation) => WarmEqualsCold']_vars

C9_Witness ==
    /\ resp = [op |-> "getPhoto", status |-> 200]
    /\ \E id \in DOMAIN photos :
          /\ <<"photo", id>> \in DOMAIN cache
          /\ photos[id].location = Absent
          /\ getPhoto(State, id, 0).resp.source = "cache"

\* C10: a createComment request whose content is missing, empty or only
\* whitespace is rejected with 400 when the caller is identified (500 only if
\* parsing the body throws), and in every case creates no Comment record and
\* leaves the cache as it was.
Blank(body) == body = <<>> \/ \A i \in 1..Len(body[1]) : body[1][i] = Space
C10_BlankCommentRejected ==
    \A id \in PresentPhotoParams, u \in Callers, body \in Bodies, f \in 0..4 :
        Blank(body) =>
            LET r == createComment(State, id, u, body, f)
            IN  /\ u # Null => r.resp.status \in {400, 500}
                /\ u # Null /\ f = 0 => r.resp.status = 400
                /\ r.st.comments = comments
                /\ r.st.cache = cache

C10_Witness ==
    /\ resp = [op |-> "createComment", status |-> 400]
    /\ DOMAIN photos # {}
    /\ <<"photo", 1, "comments">> \in DOMAIN cache

\* ---------------------------------------------------------------- like claims
Returned(p, status) == procs[p].pc = "done" /\ procs[p].status = status
LikesOf(photoId) == {l \in likes : l.photoId = photoId}
LikesOfPair(photoId, userId) == {l \in likes : l.photoId = photoId /\ l.userId = userId}

\* C14: with handlers run one at a time (likePhoto and unlikePhoto among
\* them, with throwing calls), no two Like records have the same photoId and
\* userId.
C14_OneLikePerPair ==
    \A l1, l2 \in likes : (l1.photoId = l2.photoId /\ l1.userId = l2.userId) => l1 = l2

C14_Witness ==
    /\ resp = [op |-> "likePhoto", status |-> 409]
    /\ faults = 0
    /\ \E l \in likes : LikesOfPair(l.photoId, l.userId) = {l}

\* C15: two overlapping likePhoto invocations of one user on one photo that
\* have both returned 201 have each created a Like record of their own: the
\* Likes collection holds two records for the one (photoId, userId) pair.
C15_DuplicateLikeRace ==
    \A p, q \in Procs :
        (/\ p # q
         /\ Returned(p, 201) /\ Returned(q, 201)
         /\ procs[p].photoId = procs[q].photoId
         /\ procs[p].userId = procs[q].userId) =>
            /\ procs[p].like # procs[q].like
            /\ {procs[p].like, procs[q].like} \subseteq LikesOfPair(procs[p].photoId, procs[p].userId)
            /\ Cardinality(LikesOfPair(procs[p].photoId, procs[p].userId)) >= 2

C15_Witness ==
    /\ Returned(1, 201) /\ Returned(2, 201)
    /\ procs[1].photoId = procs[2].photoId
    /\ procs[1].userId = procs[2].userId
    /\ Cardinality(LikesOfPair(procs[1].photoId, procs[1].userId)) = 2

\* C16: in every state of the document store reached by any interleaving of
\* createPhoto, likePhoto and unlikePhoto requests, every Photo's like count
\* is at least 0.
C16_LikeCountNonNegative == \A id \in DOMAIN photos : photos[id].likes >= 0

C16_Witness ==
    /\ resp = [op |-> "unlikePhoto", status |-> 500]
    /\ \E p \in Procs : Returned(p, 201) /\ photos[procs[p].photoId].likes = 1

\* C17: with handlers run one at a time and no call having thrown, the stored
\* like count of every Photo equals the number of Like records that reference
\* it.
C17_CountEqualsLikeRecords ==
    faults = 0 => \A id \in DOMAIN photos : photos[id].likes = Cardinality(LikesOf(id))

C17_Witness ==
    /\ faults = 0
    /\ resp = [op |-> "likePhoto", status |-> 201]
    /\ \E id \in DOMAIN photos : photos[id].likes = 2 /\ Cardinality(LikesOf(id)) = 2

\* C18: two overlapping likePhoto invocations of different users on one photo
\* that both read the count N and both returned 201 leave the stored count at
\* N + 1 with a Like record of each: one increment is lost.
C18_LostUpdate ==
    \A p, q \in Procs :
        (/\ p # q
         /\ Returned(p, 201) /\ Returned(q, 201)
         /\ procs[p].photoId = procs[q].photoId
         /\ procs[p].userId # procs[q].userId
         /\ procs[p].photo.likes = procs[q].photo.likes) =>
            /\ procs[p].photoId \in DOMAIN photos
            /\ photos[procs[p].photoId].likes = procs[p].photo.likes + 1
            /\ procs[p].like # procs[q].like
            /\ {procs[p].like, procs[q].like} \subseteq likes

C18_Witness ==
    /\ Returned(1, 201) /\ Returned(2, 201)
    /\ procs[1].photoId = procs[2].photoId
    /\ procs[1].userId # procs[2].userId
    /\ procs[1].photo.likes = 0 /\ procs[2].photo.likes = 0
    /\ photos[procs[1].photoId].likes = 1
    /\ Cardinality(LikesOf(procs[1].photoId)) = 2

\* ---------------------------------------------------------------- cache claims
\* C19: no mutating handler creates or changes a cache entry: after it, every
\* entry of the cache is an entry that was there before.  A read handler
\* changes the cache only on a miss of its own key, and then only by adding
\* that key; getUserLikedPhotos never touches the cache.
OnlyDeletes(r) == \A k \in DOMAIN r.st.cache : k \in DOMAIN cache /\ r.st.cache[k] = cache[k]
FillsOnMiss(r, key) ==
    r.st.cache # cache =>
        /\ key \notin DOMAIN cache
        /\ DOMAIN r.st.cache = DOMAIN cache \cup {key}
        /\ \A k \in DOMAIN cache : r.st.cache[k] = cache[k]
C19_MutationsOnlyDelete ==
    /\ \A u \in Callers, role \in Roles, form \in Forms, f \in 0..4 :
          OnlyDeletes(createPhoto(State, u, role, form[1], form[2], form[3], f))
    /\ \A id \in PhotoParams, u \in Callers, role \in Roles, f \in 0..5 :
          OnlyDeletes(deletePhotoHandler(State, id, u, role, f))
    /\ \A id \in PhotoParams, u \in Callers, f \in 0..6 :
          /\ OnlyDeletes(likePhoto(State, id, u, f))
          /\ OnlyDeletes(unlikePhoto(State, id, u, f))
    /\ \A id \in PhotoParams, u \in Callers, body \in Bodies, f \in 0..4 :
          OnlyDeletes(createComment(State, id, u, body, f))
    /\ \A id \in CommentParams, u \in Callers, role \in Roles, f \in 0..3 :
          OnlyDeletes(deleteComment(State, id, u, role, f))
    /\ \A page \in Pages, limit \in Limits, f \in 0..3 :
          FillsOnMiss(getPhotos(State, page, limit, f), <<"photos", "page", page>>)
    /\ \A id \in PhotoParams, f \in 0..3 :
          /\ FillsOnMiss(getPhoto(State, id, f), <<"photo", id>>)
          /\ FillsOnMiss(getComments(State, id, f), <<"photo", id, "comments">>)
    /\ \A id \in PhotoParams, u \in Callers, f \in 0..4 :
          FillsOnMiss(getLikes(State, id, u, f), <<"photo", id, "likes">>)
    /\ \A u \in Callers, f \in 0..2 : getUserLikedPhotos(State, u, f).st.cache = cache

C19_Witness ==
    /\ resp = [op |-> "createComment", status |-> 201]
    /\ comments # {}
    /\ DOMAIN cache # {}

\* C20: for an id with no Photo document, getPhoto never writes a cache
\* entry; when the cache holds no entry for the id it returns 404 (500 only
\* if the cache read or the store read throws) and the same request repeated
\* misses the cache and gets 404 from the document store again; and unless a
\* call has thrown, the cache holds no entry for such an id.
C20_NoNegativeCaching ==
    \A id \in PresentPhotoParams, f \in 0..3 :
        id \notin DOMAIN photos =>
            LET r == getPhoto(State, id, f)
                again == getPhoto(r.st, id, 0)
            IN  /\ r.st.cache = cache
                /\ <<"photo", id>> \notin DOMAIN cache =>
                      /\ r.resp.status \in {404, 500}
                      /\ f \notin {1, 2} => r.resp.status = 404
                      /\ again.resp.status = 404
                      /\ again.resp.source # "cache"
                /\ faults = 0 => <<"photo", id>> \notin DOMAIN cache

C20_Witness ==
    /\ resp = [op |-> "getPhoto", status |-> 404]
    /\ deleted = {}
    /\ DOMAIN photos # {}
    /\ DOMAIN cache # {}
    /\ <<"photo", UnknownId>> \notin DOMAIN cache

\* ---------------------------------------------------------------- client claims
InFlight == {"applied", "sent"}
Settled == {"confirmed", "rolledBack"}
Called(i, kind) == intents[i].pc = "idle" /\ intents'[i].pc = "applied" /\ intents'[i].kind = kind
Failed(i, kind) == intents[i].pc \in InFlight /\ intents'[i].pc = "rolledBack" /\ intents[i].kind = kind
Succeeded(i, kind) == intents[i].pc \in InFlight /\ intents'[i].pc = "confirmed" /\ intents[i].kind = kind
NotIn(s, u) == \A k \in 1..Len(s) : s[k] # u
OnlyCall(i) == \A j \in IntentIds \ {i} : intents[j].pc = "idle"

\* C11: when the client holds photo P with N likes and user U is not in
\* P.likedBy, a likePhoto(P) call by U sets P.likes to N + 1 and adds U to
\* likedBy in the same step, and the catch block applied to that state gives
\* back the state before the call; when the call is the only one made and
\* its token or request fails, the client state is again the state before
\* the call: N likes and U not in likedBy.
C11_OptimisticLikeReverts ==
    [][\A i \in IntentIds :
          LET photoId == intents'[i].photoId
              u == intents'[i].userId
          IN  /\ (Called(i, "like") /\ NotIn(uiPhotos[photoId].likedBy, u)) =>
                    /\ uiPhotos'[photoId].likes = uiPhotos[photoId].likes + 1
                    /\ ~NotIn(uiPhotos'[photoId].likedBy, u)
                    /\ likePhoto_revert(uiPhotos', photoId, u) = uiPhotos
              /\ (Failed(i, "like") /\ OnlyCall(i) /\ NotIn(mockPhotos[photoId].likedBy, u)) =>
                    /\ uiPhotos[photoId].likes = mockPhotos[photoId].likes + 1
                    /\ uiPhotos'[photoId].likes = mockPhotos[photoId].likes
                    /\ NotIn(uiPhotos'[photoId].likedBy, u)
                    /\ uiPhotos' = mockPhotos]_vars

C11_Witness ==
    /\ intents[1].kind = "like"
    /\ intents[1].pc = "rolledBack"
    /\ intents[1].requests = 1
    /\ intents[2].pc = "idle"
    /\ intents[1].userId = "u2"
    /\ mockPhotos[intents[1].photoId].likedBy = <<"u1">>
    /\ uiPhotos = mockPhotos

\* C12 (as claimed): an addComment call appends one provisional comment to
\* its photo; its success replaces exactly that comment in place; its failure
\* removes exactly that comment; every other comment of every photo, other
\* provisional comments included, stays as it is.
RemoveAt(s, k) == SubSeq(s, 1, k - 1) \o SubSeq(s, k + 1, Len(s))
C12_ProvisionalCommentExact ==
    [][\A i \in IntentIds :
          LET photoId == intents'[i].photoId
              id == intents'[i].commentId
              before == uiPhotos[photoId].comments
              after == uiPhotos'[photoId].comments
          IN  (intents'[i].kind = "addComment" /\ intents'[i].pc # intents[i].pc) =>
                  /\ \A q \in DOMAIN uiPhotos \ {photoId} : uiPhotos'[q] = uiPhotos[q]
                  /\ Called(i, "addComment") =>
                        /\ Len(after) = Len(before) + 1
                        /\ SubSeq(after, 1, Len(before)) = before
                        /\ after[Len(after)].id = id
                  /\ Succeeded(i, "addComment") =>
                        /\ Len(after) = Len(before)
                        /\ \E k \in 1..Len(before) :
                              /\ before[k].id = id
                              /\ \A j \in 1..Len(before) : j # k => after[j] = before[j]
                  /\ Failed(i, "addComment") =>
                        \E k \in 1..Len(before) : before[k].id = id /\ after = RemoveAt(before, k)]_vars

\* C13: every like, unlike or addComment call goes from idle to applied and
\* then, possibly through one request being sent, to confirmed or rolled
\* back; it sends at most one request; a settled call never changes again;
\* and the client's photos change only in the step that makes a call or
\* settles one.
IntentSteps == {<<"idle", "applied">>, <<"applied", "sent">>, <<"applied", "confirmed">>,
                <<"applied", "rolledBack">>, <<"sent", "confirmed">>, <<"sent", "rolledBack">>}
C13_IntentLifecycle ==
    [][/\ \A i \in IntentIds :
             /\ intents'[i] # intents[i] => <<intents[i].pc, intents'[i].pc>> \in IntentSteps
             /\ intents[i].pc \in Settled => intents'[i] = intents[i]
             /\ intents'[i].requests <= 1
             /\ intents'[i].requests # intents[i].requests =>
                    /\ intents'[i].pc = "sent"
                    /\ intents'[i].requests = intents[i].requests + 1
       /\ uiPhotos' # uiPhotos =>
             \E i \in IntentIds :
                 /\ <<intents[i].pc, intents'[i].pc>> \in IntentSteps
                 /\ intents'[i].pc # "sent"
                 /\ \A j \in IntentIds \ {i} : intents'[j] = intents[j]]_vars

C13_Witness ==
    \E i, j \in IntentIds :
        /\ intents[i].pc = "confirmed" /\ intents[i].requests = 1 /\ intents[i].kind = "addComment"
        /\ intents[j].pc = "rolledBack" /\ intents[j].requests = 1 /\ intents[j].kind = "unlike"

\* ---------------------------------------------------------------- handler claims
\* x-user-role as a request may carry it: a role, another spelling, or no header
RoleHeaders == Roles \cup {Null, "Creator"}

\* C21: createPhoto answers 403 whenever the x-user-role header is anything
\* other than 'creator' (absent included), whatever the form and whichever
\* call would throw, and leaves the blob container, the Photos collection,
\* the id sequence and the cache exactly as they were.
C21_CreateRequiresCreatorRole ==
    \A u \in Callers, role \in RoleHeaders \ {"creator"}, form \in Forms, f \in 0..4 :
        LET r == createPhoto(State, u, role, form[1], form[2], form[3], f)
        IN  /\ r.resp.status = 403
            /\ r.st.blobs = blobs
            /\ r.st.photos = photos
            /\ r.st.cache = cache
            /\ r.st = State

C21_Witness ==
    /\ resp = [op |-> "createPhoto", status |-> 403]
    /\ DOMAIN photos # {}
    /\ \E page \in Pages : <<"photos", "page", page>> \in DOMAIN cache

\* ---------------------------------------------------------------- service claims
\* C22: in a build without backend configuration, every photoService and
\* userService operation issues no request and resolves at once without
\* changing the static dataset; getPhotos, getPhotoById and
\* getPhotosByCreator answer from that dataset; and no like, unlike or
\* addComment call of the provider ever sends a request, while the dataset
\* stays as it was in every step.
ServiceArgs == [id : MockPhotoIds \cup {UnknownId}, userId : Users]
MockModeContract ==
    \A op \in ServiceOps, arg \in ServiceArgs, t \in Times :
        LET r == Service(op, azureConfigured, mockPhotos, arg, t)
        IN  /\ r.fetches = 0
            /\ r.resolved
            /\ r.mock = mockPhotos
            /\ op = "getPhotos" => r.value = mockPhotos
            /\ op = "getPhotoById" =>
                  r.value = IF arg.id \in DOMAIN mockPhotos THEN <<mockPhotos[arg.id]>> ELSE <<>>
            /\ op = "getPhotosByCreator" =>
                  \A id \in DOMAIN r.value : id \in DOMAIN mockPhotos /\ r.value[id] = mockPhotos[id]
C22_MockModeStaysLocal ==
    [][~azureConfigured =>
          /\ MockModeContract
          /\ mockPhotos' = mockPhotos
          /\ \A i \in IntentIds : intents'[i].requests = 0 /\ intents'[i].pc # "sent"]_vars

C22_Witness ==
    /\ ~azureConfigured
    /\ intents[1].kind = "like" /\ intents[1].pc = "confirmed" /\ intents[1].requests = 0
    /\ intents[2].kind = "unlike" /\ intents[2].pc = "confirmed" /\ intents[2].requests = 0
    /\ intents[1].photoId # intents[2].photoId
    /\ uiPhotos[intents[1].photoId] # mockPhotos[intents[1].photoId]
    /\ uiPhotos[intents[2].photoId] # mockPhotos[intents[2].photoId]

\* ---------------------------------------------------------------- singleton claims
\* C23: for every interleaving of getter calls in one process, the Redis
\* client is created at most once and connect() called at most once, the blob
\* service client and the container client are created at most once each,
\* and every call that has returned holds the one instance its module
\* variable holds.
C23_ClientsCreatedOnce ==
    /\ modules.redisCreated <= 1
    /\ modules.connectCalls <= 1
    /\ modules.serviceCreated <= 1
    /\ modules.containerCreated <= 1
    /\ \A c \in DOMAIN calls :
          calls[c].pc = "done" =>
              /\ calls[c].result = 1
              /\ calls[c].fn = "getRedisClient" => calls[c].result = modules.redisClient
              /\ calls[c].fn = "getBlobServiceClient" => calls[c].result = modules.blobServiceClient
              /\ calls[c].fn = "getContainerClient" => calls[c].result = modules.containerClient

C23_Witness ==
    /\ calls[1] = [fn |-> "getRedisClient", pc |-> "awaiting", result |-> 0]
    /\ calls[2] = [fn |-> "getRedisClient", pc |-> "done", result |-> 1]
    /\ modules.containerCreated = 1
    /\ modules.started = MaxCalls

\* C24: whichever call of a handler throws (document store, cache, blob
\* container, request parsing), the handler returns a response, its status is
\* 500 and its body is the handler's fixed error body; this holds for all
\* eleven handlers in every reachable state of the stores.
Caught(r) == r.resp.threw # "none" => (r.resp.status = 500 /\ r.resp.body = Null)
C24_ExceptionsBecome500 ==
    /\ \A page \in Pages, limit \in Limits, f \in 0..3 : Caught(getPhotos(State, page, limit, f))
    /\ \A id \in PhotoParams, f \in 0..3 :
          /\ Caught(getPhoto(State, id, f))
          /\ Caught(getComments(State, id, f))
    /\ \A u \in Callers, role \in Roles, form \in Forms, f \in 0..4 :
          Caught(createPhoto(State, u, role, form[1], form[2], form[3], f))
    /\ \A id \in PhotoParams, u \in Callers, role \in Roles, f \in 0..5 :
          Caught(deletePhotoHandler(State, id, u, role, f))
    /\ \A id \in PhotoParams, u \in Callers, f \in 0..6 :
          /\ Caught(getLikes(State, id, u, f))
          /\ Caught(likePhoto(State, id, u, f))
          /\ Caught(unlikePhoto(State, id, u, f))
    /\ \A u \in Callers, f \in 0..2 : Caught(getUserLikedPhotos(State, u, f))
    /\ \A id \in PhotoParams, u \in Callers, body \in Bodies, f \in 0..4 :
          Caught(createComment(State, id, u, body, f))
    /\ \A id \in CommentParams, u \in Callers, role \in Roles, f \in 0..3 :
          Caught(deleteComment(State, id, u, role, f))

C24_Witness ==
    /\ resp = [op |-> "getUserLikedPhotos", status |-> 500]
    /\ faults = 1
    /\ likes # {}

\* C25: when items.create throws in createPhoto after the upload, the handler
\* returns 500 and the uploaded blob stays in the container with no Photo
\* document referencing it; when items.upsert throws in likePhoto after the
\* Like was created, the handler returns 500, the Like record stays and the
\* photo's stored like count is not incremented.
C25_NoCompensation ==
    /\ \A u \in Callers, form \in {x \in Forms : x[1] # Null /\ x[2] # Null} :
          LET r == createPhoto(State, u, "creator", form[1], form[2], form[3], 3)
              uploaded == r.st.blobs \ blobs
          IN  /\ r.resp.status = 500
              /\ Cardinality(uploaded) = 1
              /\ blobs \subseteq r.st.blobs
              /\ r.st.photos = photos
              /\ \A id \in DOMAIN r.st.photos : r.st.photos[id].blob \notin uploaded
    /\ \A p \in DOMAIN photos, u \in Users :
          ~HasLike(p, u) =>
              LET r == likePhoto(State, p, u, 4)
                  created == r.st.likes \ likes
              IN  /\ r.resp.status = 500
                  /\ likes \subseteq r.st.likes
                  /\ Cardinality(created) = 1
                  /\ \A l \in created : l.photoId = p /\ l.userId = u
                  /\ r.st.photos = photos

C25_Witness ==
    /\ resp = [op |-> "createPhoto", status |-> 500]
    /\ deleted = {}
    /\ DOMAIN photos # {}
    /\ \E b \in blobs : \A id \in DOMAIN photos : photos[id].blob # b

\* ---------------------------------------------------------------- invalidation claims
\* C26 (as claimed): a successful likePhoto or unlikePhoto leaves no
\* photos:page:<n> cache entry that still lists the photo with the like count
\* it had before, and a successful deletePhotoHandler leaves no
\* photo:<id>:likes and no photo:<id>:comments entry of the deleted photo.
ListsWithCount(c, id, n) ==
    \E page \in Pages :
        /\ <<"photos", "page", page>> \in DOMAIN c
        /\ \E i \in 1..Len(c[<<"photos", "page", page>>].val) :
              /\ c[<<"photos", "page", page>>].val[i].id = id
              /\ c[<<"photos", "page", page>>].val[i].likes = n
C26_MutationsInvalidateAllAffected ==
    /\ \A id \in DOMAIN photos, u \in Users :
          /\ LET r == likePhoto(State, id, u, 0)
             IN  r.resp.status = 201 => ~ListsWithCount(r.st.cache, id, photos[id].likes)
          /\ LET r == unlikePhoto(State, id, u, 0)
             IN  (r.resp.status = 200 /\ r.st.photos[id].likes # photos[id].likes) =>
                     ~ListsWithCount(r.st.cache, id, photos[id].likes)
    /\ \A id \in DOMAIN photos, u \in Callers, role \in Roles :
          LET r == deletePhotoHandler(State, id, u, role, 0)
          IN  r.resp.status = 204 =>
                  /\ <<"photo", id, "likes">> \notin DOMAIN r.st.cache
                  /\ <<"photo", id, "comments">> \notin DOMAIN r.st.cache

\* ---------------------------------------------------------------- round-trip claims
\* C27 (as claimed): for a photo P with no Like by user U, likePhoto by U on P
\* returns 201, the unlikePhoto by U on P that follows returns 200, the Likes
\* collection and P's stored like count are then as before the like, and a
\* getLikes for U that follows reports userHasLiked = false.
C27_LikeThenUnlikeRestores ==
    \A p \in DOMAIN photos, u \in Users :
        ~HasLike(p, u) =>
            LET r1 == likePhoto(State, p, u, 0)
                r2 == unlikePhoto(r1.st, p, u, 0)
                r3 == getLikes(r2.st, p, u, 0)
            IN  /\ r1.resp.status = 201
                /\ r2.resp.status = 200
                /\ r2.st.likes = likes
                /\ r2.st.photos[p].likes = photos[p].likes
                /\ r3.resp.status = 200
                /\ r3.resp.body.userHasLiked = FALSE

\* ---------------------------------------------------------------- detail claims
\* C28 (as claimed): in PhotoDetail, once every like / unlike call made by a
\* click has settled and one of them failed and was rolled back in the photo
\* context, the isLiked flag equals whether the user's id is in the photo's
\* likedBy.
C28_DetailFlagFollowsContext ==
    (/\ \A i \in IntentIds : intents[i].pc \in Settled \cup {"idle"}
     /\ \E i \in IntentIds : intents[i].pc = "rolledBack" /\ intents[i].requests = 1) =>
        detail.isLiked = Includes(uiPhotos[detail.photoId].likedBy, user)

\* ---------------------------------------------------------------- upload claims
\* C29 (as claimed): the multipart body photoService.uploadPhoto posts for a
\* file and a non-empty title, read by createPhoto under the creator role,
\* is not rejected with 400.
UploadData == [file : {"file"}, title : {"title"}, caption : {"caption"}, location : {Null, "loc"}]
C29_UploadCarriesImage ==
    \A u \in Callers, data \in UploadData :
        LET form == uploadPhoto_formData(data)
            r == createPhoto(State, u, "creator", FormDataGet(form, "image"),
                             FormDataGet(form, "title"), FormDataGet(form, "location"), 0)
        IN  r.resp.status # 400

\* ---------------------------------------------------------------- rollback claims
\* C30 (as claimed): when every call made so far is a like or unlike by one
\* user on one photo, each sent its request, each request failed and each
\* call has run its catch block, the photo's likes and likedBy are what they
\* were before the first call.
C30_OverlappingRollbacksRestore ==
    \A photoId \in DOMAIN uiPhotos, u \in Users :
        (/\ \E i \in IntentIds : intents[i].pc # "idle"
         /\ \A i \in IntentIds :
               \/ intents[i].pc = "idle"
               \/ /\ intents[i].pc = "rolledBack"
                  /\ intents[i].requests = 1
                  /\ intents[i].kind \in {"like", "unlike"}
                  /\ intents[i].photoId = photoId
                  /\ intents[i].userId = u) =>
            /\ uiPhotos[photoId].likes = mockPhotos[photoId].likes
            /\ uiPhotos[photoId].likedBy = mockPhotos[photoId].likedBy

\* ---------------------------------------------------------------- client invariants
\* C31 (as claimed): in every client state reached from a dataset in which
\* every photo has likes >= 0 and a likedBy without repetition, every photo
\* still has likes >= 0 and a likedBy without repetition.
NoRepetition(s) == \A j, k \in 1..Len(s) : s[j] = s[k] => j = k
C31_LikesWellFormed ==
    \A photoId \in DOMAIN uiPhotos :
        /\ uiPhotos[photoId].likes >= 0
        /\ NoRepetition(uiPhotos[photoId].likedBy)

\* ---------------------------------------------------------------- race claims
\* C32 (as claimed): when no call has thrown and every getPhoto and likePhoto
\* invocation has returned, a photo:<id> cache entry of a stored photo holds
\* the stored document, and a deleted photo has no photo:<id> entry.
C32_NoStaleRepopulation ==
    (faults = 0 /\ \A p \in Procs : procs[p].pc \in {"idle", "done"}) =>
        /\ \A id \in DOMAIN photos :
              <<"photo", id>> \in DOMAIN cache => cache[<<"photo", id>>].val = photos[id]
        /\ \A id \in deleted : <<"photo", id>> \notin DOMAIN cache

\* C33 (as claimed): a photo for which deletePhotoHandler has returned 204 is
\* in the Photos collection in no later state.
C33_DeletedPhotoNotWrittenBack == \A id \in deleted : id \notin DOMAIN photos


\* C34 (as claimed): a getPhotos call answered from the cache returns what the
\* store would answer for the same page and limit; in particular a page cached
\* by a call with one limit is not returned to a call with another limit.
C34_CachedPageMatchesLimit ==
    \A page \in Pages, l1 \in Limits, l2 \in Limits :
        LET r1 == getPhotos(State, page, l1, 0)
            r2 == getPhotos(r1.st, page, l2, 0)
        IN  (r1.resp.source = "store" /\ r2.resp.source = "cache") =>
                r2.resp.body = JsonPhotos(QueryPhotos(r1.st, (page - 1) * l2, l2))


\* C35 (as claimed): the client a getRedisClient call has returned is one whose
\* connect() has resolved, also when the call overlapped the call that created
\* the client, and also when that connect() was rejected.
C35_ReturnedClientIsConnected ==
    \A c \in DOMAIN calls :
        (calls[c].fn = "getRedisClient" /\ calls[c].pc = "done") =>
            /\ calls[c].result # 0
            /\ calls[c].result = modules.redisOpen


\* C36 (as claimed): when logout has run after a login call was made and
\* nobody is logged in, the completion of that login call leaves the state
\* unauthenticated (user null, isAuthenticated false).
C36_LateLoginStaysLoggedOut ==
    [][(/\ logins.waiting # <<>>
        /\ Head(logins.waiting).overtaken
        /\ logins'.waiting = Tail(logins.waiting)
        /\ user = Null
        /\ ~authState.isAuthenticated)
       => (user' = Null /\ ~authState'.isAuthenticated)]_vars

====
